---- MODULE Spec2Model ----
(***************************************************************************)
(* Verification model of secutils-web-scraper.                             *)
(*                                                                         *)
(* Part 1: the shared browser lifecycle of src/src/index.ts                *)
(* (browser, browserShutdownTimer, browserIsLaunching, runBrowser,         *)
(* stopBrowser, acquireBrowser).  Every `await` on an external operation   *)
(* (chromium.launch, browser.close) is a suspension point: the call and    *)
(* its completion are separate steps, and any other handler may run in     *)
(* between.  Timers count down in abstract ticks.                          *)
(***************************************************************************)
EXTENDS Integers, Sequences, FiniteSets, TLC

\* ---- bounds ----
MaxLaunches == 3      \* launch attempts (one browser handle id per attempt)
MaxTimers   == 3      \* setTimeout calls
MaxCalls    == 3      \* acquireBrowser calls
BrowserTTL  == 1      \* config.browserTTLSec * 1000, in ticks

Handles == 1..MaxLaunches
Timers  == 1..MaxTimers
Err     == -1         \* a rejected launch promise

VARIABLES
  browser,               \* index.ts:16, 0 = undefined, else a handle
  browserShutdownTimer,  \* index.ts:17, 0 = undefined, else a timer id (maybe already fired)
  browserIsLaunching,    \* index.ts:63, 0 = undefined, else the pending launch promise
  proc,                  \* per handle: the external browser process
  closeCalls,            \* per handle: number of browser.close() invocations
  stops,                 \* stopBrowser invocations suspended at `await browser.close()`
  timerState,            \* per timer: unused / pending / fired / cleared
  timerLeft,             \* per pending timer: ticks until it is due
  calls,                 \* acquireBrowser calls, in order of arrival
  launchSeq,             \* launch promises created so far
  timerSeq,              \* timers created so far
  stopFailures           \* "Failed to stop browser" errors logged so far

mgrVars == <<browser, browserShutdownTimer, browserIsLaunching, proc, closeCalls,
             stops, timerState, timerLeft, calls, launchSeq, timerSeq, stopFailures>>

(***************************************************************************)
(* Part 2: resource discovery and merge of getResourcesList                *)
(* (api/web_page/resources/list.ts).  Strings are sequences of character   *)
(* codes; the codes below stand for the pieces of text the code tests for. *)
(***************************************************************************)
MaxScripts == 2       \* <script> elements in the document
MaxLinks   == 1       \* <link rel=stylesheet> elements
MaxStyles  == 1       \* <style> elements
MaxNetwork == 2       \* captured network resources

SP    == 0            \* a white-space character
DATA  == 10           \* the text "data:"
BLOB  == 11           \* the text "blob:"
COMMA == 12           \* ","
LBR   == 13           \* "["
RBR   == 14           \* "]"
TLSH  == 15           \* the text "T1" in front of a TLSH digest
SHA1  == 16           \* prefix of a symbolic SHA-1 digest
U1    == <<20>>       \* "https://secutils.dev/script.js"
U2    == <<21>>       \* "https://secutils.dev/style.css"

VARIABLES
  dom,          \* the document: script, link and style elements
  network,      \* externalResources as passed to page.evaluate
  extracted,    \* extractedResources, the value page.evaluate returned
  output,       \* resultScripts / resultStyles
  mpc,          \* "page" -> "evaluated" -> "done", or "page" -> "failed" when the
                \* evaluation threw ("off" outside this part)
  filter,       \* the user script of the request and its previousContent
  invocations   \* the arguments of the calls of the user script, in order

mergeVars == <<dom, network, extracted, output, mpc, filter, invocations>>

(***************************************************************************)
(* Part 3: one request through getResourcesList (resources/list.ts) or     *)
(* getContent (content/get.ts) and its route handler.  rpc names the       *)
(* `await` the request is suspended at; an action is the completion of     *)
(* that await together with the synchronous code up to the next one.       *)
(* Network responses and their body reads run concurrently with it.        *)
(***************************************************************************)
MaxReads == 2         \* body reads issued for one page
MaxRequests == 2      \* requests served one after another

Reads == 1..MaxReads

VARIABLES
  rq,                 \* the request: endpoint, user script supplied, waitSelector supplied
  rpc,                \* the await the request is suspended at ("off" outside this part)
  opened,             \* "context" / "page": what the request has opened
  closeTried,         \* "context" / "page": close() has been called on it
  fetchEnabled,       \* content mode: between Fetch.enable and Fetch.disable
  reads,              \* per body read: none / pending / done / failed
  externalResources,  \* the capture set, as read ids in order of completion
  cutoff,             \* what page.evaluate was given, and the reads issued/settled by then
  result,             \* ApiResult: none / success / client-error; exception when
                      \* getResourcesList / getContent threw, escaped when the handler did
  status,             \* HTTP status of the reply, 0 before it is sent
  error,              \* result.error, or the message of the exception, as pieces of text
  failure,            \* the await whose failure ended the pipeline and what was thrown
  trail,              \* the awaits of this request that have settled, in order
  message,            \* `message` of the reply body, <<>> before the reply and in a 200
  served,             \* the earlier requests of this server: what failed, and the status
  stored,             \* the handler has called cache.set for this request
  timeouts,           \* the timeout given to page.goto and to page.waitForSelector
  logged              \* the failures of this request that were logged and nothing else

reqVars == <<rq, rpc, opened, closeTried, fetchEnabled, reads, externalResources,
             cutoff, result, status, error, failure, trail, message, served,
             stored, timeouts, logged>>

(***************************************************************************)
(* Part 4: fingerprinting of resource contents, createResourceContentData  *)
(* of resources/list.ts over tlsHash (utilities/tls_hash.ts) and the Tlsh  *)
(* class (utilities/tlsh.ts), called for one content after another.        *)
(***************************************************************************)
MaxFingerprints == 2  \* createResourceContentData calls

VARIABLES
  fingerprints,       \* the calls so far: the content and the fingerprint built from it
  hasher,             \* the Tlsh object of the latest call, as the call left it
  fq                  \* the locals of the find_quartile call on hasher that is running

fpVars == <<fingerprints, hasher, fq>>

(***************************************************************************)
(* Part 5: the two routes and the result cache they share, src/src/index.ts *)
(* and the handlers of resources/list.ts and content/get.ts, with several  *)
(* requests in flight.                                                     *)
(***************************************************************************)
MaxSlots == 2         \* requests that arrive

Slots == 1..MaxSlots

VARIABLES
  cache,                 \* index.ts:19, the NodeCache: cache key -> stored result
  slots,                 \* per request: where its handler stands and what it holds
  contentRoute           \* which of the two copies of the content route is registered:
                         \* "get" (content/get.ts) or "constants" (web_page/constants.ts)

serverVars == <<cache, slots, contentRoute>>

(***************************************************************************)
(* Part 6: the FetchInterceptor of one page,                               *)
(* src/src/api/web_page/fetch_interceptor.ts.                              *)
(***************************************************************************)
MaxPaused == 3        \* requests of the page that the Fetch domain pauses

RequestIds == 1..MaxPaused

VARIABLES
  intercepting,          \* between Fetch.enable and Fetch.disable
  paused,                \* per request id: the Fetch.requestPaused handler for it
  interceptedResources   \* fetch_interceptor.ts:18

fetchVars == <<intercepting, paused, interceptedResources>>

vars == <<mgrVars, mergeVars, reqVars, fpVars, serverVars, fetchVars>>

\* What the actions of one part leave alone.
otherThanMgr    == <<mergeVars, reqVars, fpVars, serverVars, fetchVars>>
otherThanMerge  == <<mgrVars, reqVars, fpVars, serverVars, fetchVars>>
otherThanReq    == <<mgrVars, mergeVars, fpVars, serverVars, fetchVars>>
otherThanFp     == <<mgrVars, mergeVars, reqVars, serverVars, fetchVars>>
otherThanServer == <<mergeVars, reqVars, fpVars, contentRoute, fetchVars>>
otherThanFetch  == <<mgrVars, mergeVars, reqVars, fpVars, serverVars>>

\* browser.isConnected()
isConnected(h) == proc[h] = "running"

PendingTimers == {t \in Timers : timerState[t] = "pending"}

\* Handles whose process has been terminated by close().
Closed == {h \in Handles : proc[h] = "closed"}

\* Handles on which close() has been invoked.
Stopped == {h \in Handles : closeCalls[h] > 0}

\* Settled value of launch promise p: the handle (promise p launches handle p) or the error.
Outcome(p) == IF proc[p] = "failed" THEN Err ELSE p

\* Variant of clearTimeout that forgets to cancel the armed timer.
clearTimeout_Noop(ts) == ts

\* clearTimeout(browserShutdownTimer), index.ts:74-77: a no-op on a fired timer.
clearTimeout(ts) ==
  [t \in Timers |-> IF t = browserShutdownTimer /\ ts[t] = "pending" THEN "cleared" ELSE ts[t]]

\* setTimeout(..., config.browserTTLSec * 1000), index.ts:80-84 and 92-96.
setTimeout(ts) == [ts EXCEPT ![timerSeq + 1] = "pending"]

\* Launch attempts that have settled (resolved or rejected).
Settled == {h \in Handles : proc[h] \notin {"none", "launching"}}

\* Variant of LaunchPending without the single-flight test.
LaunchPending_Never == FALSE

\* `if (browserIsLaunching)`, index.ts:69.
LaunchPending == browserIsLaunching # 0

\* The record of one acquireBrowser call: the branch it took, the promise it waits on,
\* its result (0 while pending), and what the manager looked like when it arrived.
NewCall(path, promise, res) ==
  [path |-> path, promise |-> promise, result |-> res, saw |-> browser,
   sawConnected |-> (browser # 0 /\ isConnected(browser)),
   settled |-> Cardinality(Settled), dead |-> Closed, stopped |-> Stopped]

MgrInit ==
  /\ browser = 0
  /\ browserShutdownTimer = 0
  /\ browserIsLaunching = 0
  /\ proc = [h \in Handles |-> "none"]
  /\ closeCalls = [h \in Handles |-> 0]
  /\ stops = {}
  /\ timerState = [t \in Timers |-> "unused"]
  /\ timerLeft = [t \in Timers |-> 0]
  /\ calls = <<>>
  /\ launchSeq = 0
  /\ timerSeq = 0
  /\ stopFailures = 0

\* acquireBrowser, index.ts:69-72: a launch is pending, the caller gets the same promise.
AcquireJoin ==
  /\ LaunchPending
  /\ calls' = Append(calls, NewCall("join", browserIsLaunching, 0))
  /\ UNCHANGED <<browser, browserShutdownTimer, browserIsLaunching, proc, closeCalls,
                 stops, timerState, timerLeft, launchSeq, timerSeq, stopFailures>>

\* acquireBrowser, index.ts:74-86: the held browser is connected; re-arm the timer, return it.
AcquireLive ==
  /\ ~LaunchPending
  /\ browser # 0 /\ isConnected(browser)
  /\ timerSeq < MaxTimers
  /\ timerState' = setTimeout(clearTimeout(timerState))
  /\ timerLeft' = [timerLeft EXCEPT ![timerSeq + 1] = BrowserTTL]
  /\ browserShutdownTimer' = timerSeq + 1
  /\ timerSeq' = timerSeq + 1
  /\ calls' = Append(calls, NewCall("live", 0, browser))
  /\ UNCHANGED <<browser, browserIsLaunching, proc, closeCalls, stops, launchSeq, stopFailures>>

\* Variant of AcquireLaunch that starts chromium.launch without waiting for the stop.
AcquireLaunch_NoWait ==
  /\ ~LaunchPending
  /\ ~(browser # 0 /\ isConnected(browser))
  /\ launchSeq < MaxLaunches /\ timerSeq < MaxTimers
  /\ LET p == launchSeq + 1 IN
       /\ timerState' = clearTimeout(timerState)
       /\ browserShutdownTimer' = 0
       /\ browserIsLaunching' = p
       /\ launchSeq' = p
       /\ calls' = Append(calls, NewCall("launch", p, 0))
       /\ proc' = [proc EXCEPT ![p] = "launching"]
       /\ IF browser # 0
            THEN /\ closeCalls' = [closeCalls EXCEPT ![browser] = @ + 1]
                 /\ stops' = stops \cup {[h |-> browser, n |-> closeCalls[browser] + 1, p |-> p]}
            ELSE UNCHANGED <<closeCalls, stops>>
  /\ UNCHANGED <<browser, timerLeft, timerSeq, stopFailures>>

\* acquireBrowser, index.ts:74-77 and 88: no connected browser; the timer is cleared and
\* browserIsLaunching is set.  A held (disconnected) browser is stopped first
\* (stopBrowser runs up to `await browser.close()`, index.ts:48-55), otherwise
\* runBrowser starts chromium.launch at once (index.ts:24-37).
AcquireLaunch ==
  /\ ~LaunchPending
  /\ ~(browser # 0 /\ isConnected(browser))
  /\ launchSeq < MaxLaunches /\ timerSeq < MaxTimers
  /\ LET p == launchSeq + 1 IN
       /\ timerState' = clearTimeout(timerState)
       /\ browserShutdownTimer' = 0
       /\ browserIsLaunching' = p
       /\ launchSeq' = p
       /\ calls' = Append(calls, NewCall("launch", p, 0))
       /\ IF browser # 0
            THEN /\ closeCalls' = [closeCalls EXCEPT ![browser] = @ + 1]
                 /\ stops' = stops \cup {[h |-> browser, n |-> closeCalls[browser] + 1, p |-> p]}
                 /\ proc' = proc
            ELSE /\ proc' = [proc EXCEPT ![p] = "launching"]
                 /\ UNCHANGED <<closeCalls, stops>>
  /\ UNCHANGED <<browser, timerLeft, timerSeq, stopFailures>>

\* acquireBrowser, index.ts:68-107.
acquireBrowser ==
  /\ Len(calls) < MaxCalls
  /\ (AcquireJoin \/ AcquireLive \/ AcquireLaunch)
  /\ UNCHANGED otherThanMgr

\* The idle timer callback, index.ts:80-84 / 92-96: stopBrowser up to `await browser.close()`
\* (index.ts:48-55).  browserShutdownTimer keeps referring to the fired timer.
TimerFire(t) ==
  /\ timerState[t] = "pending" /\ timerLeft[t] = 0
  /\ timerState' = [timerState EXCEPT ![t] = "fired"]
  /\ IF browser = 0
       THEN UNCHANGED <<closeCalls, stops>>
       ELSE /\ closeCalls' = [closeCalls EXCEPT ![browser] = @ + 1]
            /\ stops' = stops \cup {[h |-> browser, n |-> closeCalls[browser] + 1, p |-> 0]}
  /\ UNCHANGED <<browser, browserShutdownTimer, browserIsLaunching, proc, timerLeft,
                 calls, launchSeq, timerSeq, stopFailures>>
  /\ UNCHANGED otherThanMgr

\* Time passes: every pending timer that is not yet due gets one tick closer.
Tick ==
  /\ \E t \in PendingTimers : timerLeft[t] > 0
  /\ timerLeft' = [t \in Timers |->
                     IF timerState[t] = "pending" /\ timerLeft[t] > 0
                       THEN timerLeft[t] - 1 ELSE timerLeft[t]]
  /\ UNCHANGED <<browser, browserShutdownTimer, browserIsLaunching, proc, closeCalls,
                 stops, timerState, calls, launchSeq, timerSeq, stopFailures>>
  /\ UNCHANGED otherThanMgr

\* Variant of StopBrowserDone that never resets `browser`.
StopBrowserDone_KeepHandle(s, ok) ==
  /\ s \in stops
  /\ stops' = stops \ {s}
  /\ browser' = browser
  /\ proc' = [h \in Handles |->
                IF ok /\ h = s.h /\ proc[h] \in {"running", "crashed"} THEN "closed"
                ELSE IF h = s.p THEN "launching"
                ELSE proc[h]]
  /\ stopFailures' = IF ok THEN stopFailures ELSE stopFailures + 1
  /\ UNCHANGED <<browserShutdownTimer, browserIsLaunching, closeCalls, timerState,
                 timerLeft, calls, launchSeq, timerSeq>>
  /\ UNCHANGED otherThanMgr

\* `await browser.close()` of stopBrowser invocation s settles, index.ts:55-60.
\* ok: the process is terminated and `browser = undefined`; ~ok: the error is logged.
\* A stop started by acquireBrowser continues with runBrowser (index.ts:88, 24-37).
StopBrowserDone(s, ok) ==
  /\ s \in stops
  /\ stops' = stops \ {s}
  /\ browser' = IF ok THEN 0 ELSE browser
  /\ proc' = [h \in Handles |->
                IF ok /\ h = s.h /\ proc[h] \in {"running", "crashed"} THEN "closed"
                ELSE IF h = s.p THEN "launching"
                ELSE proc[h]]
  /\ stopFailures' = IF ok THEN stopFailures ELSE stopFailures + 1
  /\ UNCHANGED <<browserShutdownTimer, browserIsLaunching, closeCalls, timerState,
                 timerLeft, calls, launchSeq, timerSeq>>
  /\ UNCHANGED otherThanMgr

\* Every call waiting on promise p receives the settled value v.
Settle(p, v) ==
  [i \in 1..Len(calls) |->
     IF calls[i].promise = p /\ calls[i].result = 0
       THEN [calls[i] EXCEPT !.result = v] ELSE calls[i]]

\* chromium.launch of promise p resolves, index.ts:38-39, 90-98, 104-106.
LaunchOk(p) ==
  /\ proc[p] = "launching"
  /\ proc' = [proc EXCEPT ![p] = "running"]
  /\ browser' = p
  /\ timerState' = setTimeout(timerState)
  /\ timerLeft' = [timerLeft EXCEPT ![timerSeq + 1] = BrowserTTL]
  /\ browserShutdownTimer' = timerSeq + 1
  /\ timerSeq' = timerSeq + 1
  /\ browserIsLaunching' = 0
  /\ calls' = Settle(p, p)
  /\ UNCHANGED <<closeCalls, stops, launchSeq, stopFailures>>
  /\ UNCHANGED otherThanMgr

\* Variant of LaunchFail whose promise chain lacks the `finally` reset.
LaunchFail_NoReset(p) ==
  /\ proc[p] = "launching"
  /\ proc' = [proc EXCEPT ![p] = "failed"]
  /\ browser' = 0
  /\ browserIsLaunching' = browserIsLaunching
  /\ calls' = Settle(p, Err)
  /\ UNCHANGED <<browserShutdownTimer, closeCalls, stops, timerState, timerLeft,
                 launchSeq, timerSeq, stopFailures>>
  /\ UNCHANGED otherThanMgr

\* chromium.launch of promise p rejects, index.ts:40-45, 99-102, 104-106.
LaunchFail(p) ==
  /\ proc[p] = "launching"
  /\ proc' = [proc EXCEPT ![p] = "failed"]
  /\ browser' = 0
  /\ browserIsLaunching' = 0
  /\ calls' = Settle(p, Err)
  /\ UNCHANGED <<browserShutdownTimer, closeCalls, stops, timerState, timerLeft,
                 launchSeq, timerSeq, stopFailures>>
  /\ UNCHANGED otherThanMgr

\* The browser process dies or loses its connection on its own.
Crash(h) ==
  /\ proc[h] = "running"
  /\ proc' = [proc EXCEPT ![h] = "crashed"]
  /\ UNCHANGED <<browser, browserShutdownTimer, browserIsLaunching, closeCalls, stops,
                 timerState, timerLeft, calls, launchSeq, timerSeq, stopFailures>>
  /\ UNCHANGED otherThanMgr

MgrNext ==
  \/ acquireBrowser
  \/ \E t \in Timers : TimerFire(t)
  \/ Tick
  \/ \E s \in stops : \E ok \in BOOLEAN : StopBrowserDone(s, ok)
  \/ \E p \in Handles : LaunchOk(p)
  \/ \E p \in Handles : LaunchFail(p)
  \/ \E h \in Handles : Crash(h)

(***************************************************************************)
(* Part 2 definitions.                                                     *)
(***************************************************************************)
RECURSIVE LTrim(_)
LTrim(str) == IF str # <<>> /\ Head(str) = SP THEN LTrim(Tail(str)) ELSE str

RECURSIVE RTrim(_)
RTrim(str) ==
  IF str # <<>> /\ str[Len(str)] = SP THEN RTrim(SubSeq(str, 1, Len(str) - 1)) ELSE str

\* String.prototype.trim
Trim(str) == RTrim(LTrim(str))

\* url.startsWith('data:') / url.startsWith('blob:')
StartsWith(str, c) == str # <<>> /\ Head(str) = c

\* url.split(',')[0]
RECURSIVE BeforeComma(_)
BeforeComma(str) ==
  IF str = <<>> \/ Head(str) = COMMA THEN <<>> ELSE <<Head(str)>> \o BeforeComma(Tail(str))

\* The text a blob: URL resolves to when fetched in the page.
BlobBody(url) == <<2, 2>>

\* parseURL, list.ts:242-260
parseURL(url) ==
  IF StartsWith(url, DATA) THEN [url |-> BeforeComma(url) \o <<COMMA>>, data |-> url]
  ELSE IF StartsWith(url, BLOB) THEN [url |-> <<BLOB>>, data |-> BlobBody(url)]
  ELSE [url |-> url, data |-> <<>>]

\* isResourceValid, list.ts:262-264 (an absent url is the empty string here)
isResourceValid(resource) == resource.url # <<>> \/ resource.data # <<>>

\* list.ts:272-281, the resource of one <script> element
ScriptResource(el) ==
  LET parsed == parseURL(Trim(el.src))
      scriptContent == Trim(el.onload) \o Trim(el.innerHTML) \o parsed.data
  IN [url |-> parsed.url,
      data |-> IF scriptContent # <<>> THEN scriptContent ELSE parsed.data,
      type |-> "script"]

\* list.ts:289-298, the resource of one <link rel=stylesheet> element
StyleLinkResource(el) ==
  LET parsed == parseURL(Trim(el.href))
  IN [url |-> parsed.url, data |-> parsed.data, type |-> "stylesheet"]

\* list.ts:305-313, the resource of one <style> element
StyleResource(el) == [url |-> <<>>, data |-> el.innerHTML, type |-> "stylesheet"]

SeqMap(Op(_), seq) == [i \in 1..Len(seq) |-> Op(seq[i])]

\* list.ts:266-313, `resources`: the elements in document order, invalid ones dropped
InPageResources(d) ==
  SelectSeq(SeqMap(ScriptResource, d.scripts), isResourceValid)
    \o SelectSeq(SeqMap(StyleLinkResource, d.links), isResourceValid)
    \o SelectSeq(SeqMap(StyleResource, d.styles), LAMBDA r : r.data # <<>>)

\* list.ts:316, new Map(externalResources.map(...)): one entry per URL, at the position of
\* the first resource with that URL and holding the last one
externalResourcesMap(ext) ==
  LET firsts == SelectSeq([i \in 1..Len(ext) |-> i],
                          LAMBDA i : \A j \in 1..(i - 1) : ext[j].url # ext[i].url)
      Last(u) == CHOOSE i \in 1..Len(ext) :
                   ext[i].url = u /\ \A j \in (i + 1)..Len(ext) : ext[j].url # u
  IN [k \in 1..Len(firsts) |-> ext[Last(ext[firsts[k]].url)]]

\* externalResourcesMap.get(url), <<>> when there is no entry
MapGet(map, url) == SelectSeq(map, LAMBDA e : e.url = url)

\* Variant of Combine that never adds the network body.
Combine_NoMerge(map, resource) == resource

\* list.ts:317-330, one step of resources.map(...)
Combine(map, resource) ==
  LET found == IF resource.url # <<>> THEN MapGet(map, resource.url) ELSE <<>>
  IN IF found = <<>> THEN resource
     ELSE [resource EXCEPT !.data = resource.data \o found[1].data]

\* list.ts:324-327, the URLs whose map entry got `processed: true`
Processed(map, resources) ==
  {resources[i].url : i \in {j \in 1..Len(resources) :
       resources[j].url # <<>> /\ MapGet(map, resources[j].url) # <<>>}}

\* Variant of Leftovers that ignores the processed mark.
Leftovers_IgnoreMark(map, resources) == map

\* list.ts:332-337, the map entries not marked processed
Leftovers(map, resources) ==
  SelectSeq(map, LAMBDA e : e.url \notin Processed(map, resources))

\* list.ts:315-337, combinedResources (no resourceFilterMap installed, list.ts:377)
CombinedResources(d, ext) ==
  LET resources == InPageResources(d)
      map == externalResourcesMap(ext)
  IN [i \in 1..Len(resources) |-> Combine(map, resources[i])] \o Leftovers(map, resources)

\* What a user script can return for a resource: a falsy value, or an object whose url
\* is absent, null, a string or something else, whose type is any text and whose data is
\* a string or something else.
NotGiven == [t |-> "undefined", v |-> <<>>]
Str(text) == [t |-> "string", v |-> text]
Num == [t |-> "number", v |-> <<>>]
Falsy(ret) == [ret |-> ret, url |-> NotGiven, type |-> "", data |-> NotGiven]

\* The resource itself, as the object handed to the script (url absent when it has none).
Obj(r) ==
  [ret |-> "object", url |-> IF r.url = <<>> THEN NotGiven ELSE Str(r.url), type |-> r.type,
   data |-> Str(r.data)]

\* The user scripts of the model, as functions of the resource.
FilterKinds ==
  {"identity", "dropScripts", "zeroInline", "blank", "nullUrl", "badUrl", "badType",
   "badData"}

\* resourceFilterMap(resource), the script being `kind`
Invoke(kind, r) ==
  CASE kind = "identity" -> Obj(r)
    [] kind = "dropScripts" -> IF r.type = "script" THEN Falsy("null") ELSE Obj(r)
    [] kind = "zeroInline" -> IF r.url = <<>> THEN Falsy("0") ELSE Obj(r)
    [] kind = "blank" -> [Obj(r) EXCEPT !.url = Str(<<>>), !.data = Str(<<>>)]
    [] kind = "nullUrl" -> [Obj(r) EXCEPT !.url = [t |-> "null", v |-> <<>>]]
    [] kind = "badUrl" -> IF r.type = "script" THEN Obj(r) ELSE [Obj(r) EXCEPT !.url = Num]
    [] kind = "badType" ->
         IF r.type = "script" THEN Obj(r) ELSE [Obj(r) EXCEPT !.type = "image"]
    [] kind = "badData" -> IF r.type = "script" THEN Obj(r) ELSE [Obj(r) EXCEPT !.data = Num]

\* Variant of isMappedValid without the test of the type.
isMappedValid_AnyType(mapped) ==
  /\ mapped.url.t \in {"undefined", "null", "string"}
  /\ mapped.data.t = "string"

\* list.ts:353-371, the three tests a mapped resource has to pass
isMappedValid(mapped) ==
  /\ mapped.url.t \in {"undefined", "null", "string"}
  /\ mapped.type \in {"script", "stylesheet"}
  /\ mapped.data.t = "string"

\* The resource a valid mapped value is for the code that follows.
AsResource(mapped) == [url |-> mapped.url.v, data |-> mapped.data.v, type |-> mapped.type]

\* Variant of flatMapFrom in which a skipped resource ends the iteration.
RECURSIVE flatMapFrom_StopAtSkip(_, _, _, _)
flatMapFrom_StopAtSkip(kind, resources, i, acc) ==
  IF i > Len(resources) THEN acc
  ELSE LET mapped == Invoke(kind, resources[i])
           called == [acc EXCEPT !.calls = Append(@, resources[i])]
       IN IF mapped.ret # "object" THEN called
          ELSE IF ~isMappedValid(mapped) THEN [called EXCEPT !.threw = TRUE, !.kept = <<>>]
          ELSE flatMapFrom_StopAtSkip(kind, resources, i + 1,
                                      [called EXCEPT !.kept = Append(@, AsResource(mapped))])

\* list.ts:346-375, combinedResources.flatMap(...) from element i on: the calls of the
\* script, the resources kept, and whether the callback threw
RECURSIVE flatMapFrom(_, _, _, _)
flatMapFrom(kind, resources, i, acc) ==
  IF i > Len(resources) THEN acc
  ELSE LET mapped == Invoke(kind, resources[i])
           called == [acc EXCEPT !.calls = Append(@, resources[i])]
       IN IF mapped.ret # "object" THEN flatMapFrom(kind, resources, i + 1, called)
          ELSE IF ~isMappedValid(mapped) THEN [called EXCEPT !.threw = TRUE, !.kept = <<>>]
          ELSE flatMapFrom(kind, resources, i + 1,
                           [called EXCEPT !.kept = Append(@, AsResource(mapped))])

\* list.ts:339-385: what the page evaluation returns, or that it threw
FilteredResources(kind, combined) ==
  IF kind = "none" THEN [calls |-> <<>>, kept |-> combined, threw |-> FALSE]
  ELSE flatMapFrom(kind, combined, 1, [calls |-> <<>>, kept |-> <<>>, threw |-> FALSE])

\* JSON.parse of a previousContent: the text of a JSON string literal gives the string,
\* any other text of the model is not JSON.
JSONparse(text) ==
  IF Len(text) >= 2 /\ text[1] = 34 /\ text[Len(text)] = 34
    THEN [threw |-> FALSE, value |-> SubSeq(text, 2, Len(text) - 1)]
    ELSE [threw |-> TRUE, value |-> <<>>]

\* get.ts:262-283: the calls of extractContent in the page, and whether the evaluation
\* threw
ExtractContentCalls(f, ext) ==
  IF f.kind = "none" THEN [calls |-> <<>>, threw |-> FALSE]
  ELSE IF f.previousContent = NotGiven
    THEN [calls |-> << [previous |-> NotGiven, externalResources |-> ext] >>, threw |-> FALSE]
  ELSE IF JSONparse(f.previousContent.v).threw THEN [calls |-> <<>>, threw |-> TRUE]
  ELSE [calls |-> << [previous |-> Str(JSONparse(f.previousContent.v).value),
                      externalResources |-> ext] >>,
        threw |-> FALSE]

(***************************************************************************)
(* TLSH (utilities/tlsh.ts) as the code computes it.  Typed arrays are     *)
(* functions over 0..n-1, the hasher object is a record of its fields.     *)
(***************************************************************************)
TLSH_CHECKSUM_LEN == 1
MIN_DATA_LENGTH == 50
SLIDING_WND_SIZE == 5
RNG_SIZE == SLIDING_WND_SIZE
BUCKETS == 256
CODE_SIZE == 32
EFF_BUCKETS == 128

\* tlsh.ts:81-92, indexed from 1 here
V_TABLE ==
  <<1, 87, 49, 12, 176, 178, 102, 166, 121, 193, 6, 84, 249, 230, 44, 163,
     14, 197, 213, 181, 161, 85, 218, 80, 64, 239, 24, 226, 236, 142, 38, 200,
     110, 177, 104, 103, 141, 253, 255, 50, 77, 101, 81, 18, 45, 96, 31, 222,
     25, 107, 190, 70, 86, 237, 240, 34, 72, 242, 20, 214, 244, 227, 149, 235,
     97, 234, 57, 22, 60, 250, 82, 175, 208, 5, 127, 199, 111, 62, 135, 248,
     174, 169, 211, 58, 66, 154, 106, 195, 245, 171, 17, 187, 182, 179, 0, 243,
     132, 56, 148, 75, 128, 133, 158, 100, 130, 126, 91, 13, 153, 246, 216, 219,
     119, 68, 223, 78, 83, 88, 201, 99, 122, 11, 92, 32, 136, 114, 52, 10,
     138, 30, 48, 183, 156, 35, 61, 26, 143, 74, 251, 94, 129, 162, 63, 152,
     170, 7, 115, 167, 241, 206, 3, 150, 55, 59, 151, 220, 90, 53, 23, 131,
     125, 173, 15, 238, 79, 95, 89, 16, 105, 137, 225, 224, 217, 160, 37, 123,
     118, 73, 2, 157, 46, 116, 9, 145, 134, 228, 207, 212, 202, 215, 69, 229,
     27, 188, 67, 124, 168, 252, 42, 4, 29, 108, 21, 247, 19, 205, 39, 203,
     233, 40, 186, 147, 198, 192, 155, 33, 164, 191, 98, 204, 165, 180, 117, 76,
     140, 36, 210, 172, 41, 54, 159, 8, 185, 232, 113, 196, 231, 47, 146, 120,
     51, 65, 28, 144, 254, 221, 93, 189, 194, 139, 112, 43, 71, 109, 184, 209>>

\* a ^ b on non-negative integers
RECURSIVE BitXor(_, _)
BitXor(a, b) ==
  IF a = 0 THEN b
  ELSE IF b = 0 THEN a
  ELSE (((a % 2) + (b % 2)) % 2) + 2 * BitXor(a \div 2, b \div 2)

\* a ^ b on bytes, tabulated
Xor == [a \in 0..255 |-> [b \in 0..255 |-> BitXor(a, b)]]

\* tlsh.ts:94-103
b_mapping(salt, i, j, k) ==
  LET h1 == V_TABLE[Xor[0][salt] + 1]
      h2 == V_TABLE[Xor[h1][i] + 1]
      h3 == V_TABLE[Xor[h2][j] + 1]
  IN V_TABLE[Xor[h3][k] + 1]

\* floor(ln(len) / ln(1.5)): the largest i with 1.5^i <= len
RECURSIVE Log15Floor(_, _, _)
Log15Floor(len, i, pow3) ==
  IF 3 * pow3 <= len * (2 ^ (i + 1)) THEN Log15Floor(len, i + 1, 3 * pow3) ELSE i

\* tlsh.ts:109-120, the branch for len <= 656 (no longer content is hashed here)
l_capturing(len) == Log15Floor(len, 0, 1) % 256

\* tlsh.ts:122-128, on the zero Q of a fresh object the two calls give lo + 16 * hi
setQLo(Q, x) == ((Q \div 16) * 16) + (x % 16)
setQHi(Q, x) == (Q % 16) + (16 * (x % 16))

\* tlsh.ts:162-164
swap_byte(i) == ((i \div 16) % 16) + (16 * (i % 16))

\* One hexadecimal digit as its character code, '0'-'9' and 'A'-'F'.
HexDigit(d) == IF d < 10 THEN 48 + d ELSE 55 + d

\* tlsh.ts:166-177, on a sequence of bytes
RECURSIVE to_hex(_)
to_hex(data) ==
  IF data = <<>> THEN <<>>
  ELSE <<HexDigit(Head(data) \div 16), HexDigit(Head(data) % 16)>> \o to_hex(Tail(data))

\* tlsh.ts:185-187
RNG_IDX(i) == (i + RNG_SIZE) % RNG_SIZE

\* Reading outside a typed array gives undefined; comparisons with undefined are false
\* and storing undefined stores 0; a write outside the array is ignored.
Undefined == -1
Rd(buf, i) == IF i \in DOMAIN buf THEN buf[i] ELSE Undefined
Wr(buf, i, v) ==
  IF i \in DOMAIN buf THEN [buf EXCEPT ![i] = IF v = Undefined THEN 0 ELSE v] ELSE buf
Less(a, b) == a # Undefined /\ b # Undefined /\ a < b

\* tlsh.ts:179-183
SWAP_UINT(buf, left, right) == Wr(Wr(buf, left, Rd(buf, right)), right, Rd(buf, left))

\* tlsh.ts:147-152, one round of the loop on [buf, ret]
partitionStep(st, i, val) ==
  IF Less(Rd(st.buf, i), val)
    THEN [buf |-> SWAP_UINT(st.buf, st.ret, i), ret |-> st.ret + 1]
    ELSE st

\* tlsh.ts:147-152, the rounds for i = lo, ..., hi in this order
RECURSIVE partitionLoop(_, _, _, _)

\* The second half of the rounds, once the first half has given done.
partitionRest(done, lo, hi, val) ==
  IF done.ret >= 0 THEN partitionLoop(done, lo, hi, val) ELSE done

partitionLoop(st, lo, hi, val) ==
  IF lo > hi THEN st
  ELSE IF lo = hi THEN partitionStep(st, lo, val)
  ELSE partitionRest(partitionLoop(st, lo, (lo + hi) \div 2, val),
                     ((lo + hi) \div 2) + 1, hi, val)

\* tlsh.ts:153-156: the pivot value goes to its final place ret
partitionEnd(looped, right, val) ==
  [buf |-> Wr(Wr(looped.buf, right, Rd(looped.buf, looped.ret)), looped.ret, val),
   ret |-> looped.ret]

\* tlsh.ts:142-156, val being the pivot value: it is moved to the right end, the smaller
\* values are collected on the left
partitionAround(buf, left, right, pivot, val) ==
  partitionEnd(
    partitionLoop([buf |-> Wr(Wr(buf, pivot, Rd(buf, right)), right, val), ret |-> left],
                  left, right - 1, val),
    right, val)

\* Variant of partition that leaves two neighbours as they are.
partition_NoSwap(buf, left, right) ==
  IF left = right \/ left + 1 = right THEN [buf |-> buf, ret |-> left]
  ELSE partitionAround(buf, left, right, (left + right) \div 2,
                       Rd(buf, (left + right) \div 2))

\* tlsh.ts:130-160
partition(buf, left, right) ==
  IF left = right THEN [buf |-> buf, ret |-> left]
  ELSE IF left + 1 = right
    THEN [buf |-> IF Less(Rd(buf, right), Rd(buf, left)) THEN SWAP_UINT(buf, left, right)
                  ELSE buf,
          ret |-> left]
    ELSE partitionAround(buf, left, right, (left + right) \div 2,
                         Rd(buf, (left + right) \div 2))

\* tlsh.ts:346-349
p1 == (EFF_BUCKETS \div 4) - 1
p2 == (EFF_BUCKETS \div 2) - 1
p3 == EFF_BUCKETS - (EFF_BUCKETS \div 4) - 1
end == EFF_BUCKETS - 1

\* The locals of find_quartile, tlsh.ts:338-353: the copy of the first EFF_BUCKETS
\* buckets, the two lists of partition points, the loop variables, and the loop the
\* call is in: "q2" (355-370), "q1" (376-397) with its inner loop "q1in" (380-388),
\* "q3" (399-420) with its inner loop "q3in" (403-411), "done".
findQuartileLocals(a_bucket) ==
  [buf |-> [i \in 0..end |-> a_bucket[i]], loop |-> "q2", l |-> 0, r |-> end, i |-> 1,
   short_cut_left |-> <<>>, short_cut_right |-> <<>>, q1 |-> 0, q2 |-> 0, q3 |-> 0]

\* Variant of stepQ2 that keeps the partition point inside the range on the left.
stepQ2_KeepsPivot(st, p) ==
  IF p.ret > p2
    THEN [st EXCEPT !.buf = p.buf, !.r = p.ret - 1,
                    !.short_cut_right = Append(@, p.ret)]
  ELSE IF p.ret < p2
    THEN [st EXCEPT !.buf = p.buf, !.l = p.ret,
                    !.short_cut_left = Append(@, p.ret)]
  ELSE [st EXCEPT !.buf = p.buf, !.q2 = Rd(p.buf, p2),
                  !.short_cut_left = Append(@, p2 - 1),
                  !.short_cut_right = Append(@, p2 + 1),
                  !.loop = "q1", !.i = 1, !.l = 0]

\* tlsh.ts:356-374: one round of the loop for q2, p being what partition returned
stepQ2(st, p) ==
  IF p.ret > p2
    THEN [st EXCEPT !.buf = p.buf, !.r = p.ret - 1,
                    !.short_cut_right = Append(@, p.ret)]
  ELSE IF p.ret < p2
    THEN [st EXCEPT !.buf = p.buf, !.l = p.ret + 1,
                    !.short_cut_left = Append(@, p.ret)]
  ELSE [st EXCEPT !.buf = p.buf, !.q2 = Rd(p.buf, p2),
                  !.short_cut_left = Append(@, p2 - 1),
                  !.short_cut_right = Append(@, p2 + 1),
                  !.loop = "q1", !.i = 1, !.l = 0]

\* tlsh.ts:376-397: one round of the loop along short_cut_left
stepQ1(st) ==
  IF st.i > Len(st.short_cut_left) THEN [st EXCEPT !.loop = "q3", !.i = 1, !.r = end]
  ELSE IF st.short_cut_left[st.i] > p1
    THEN [st EXCEPT !.loop = "q1in", !.r = st.short_cut_left[st.i]]
  ELSE IF st.short_cut_left[st.i] < p1
    THEN [st EXCEPT !.l = st.short_cut_left[st.i], !.i = @ + 1]
  ELSE [st EXCEPT !.q1 = Rd(st.buf, p1), !.loop = "q3", !.i = 1, !.r = end]

\* tlsh.ts:380-388: one round of the inner loop for q1
stepWithinQ1(st, p) ==
  IF p.ret > p1 THEN [st EXCEPT !.buf = p.buf, !.r = p.ret - 1]
  ELSE IF p.ret < p1 THEN [st EXCEPT !.buf = p.buf, !.l = p.ret + 1]
  ELSE [st EXCEPT !.buf = p.buf, !.q1 = Rd(p.buf, p1), !.loop = "q3", !.i = 1, !.r = end]

\* tlsh.ts:399-420: one round of the loop along short_cut_right
stepQ3(st) ==
  IF st.i > Len(st.short_cut_right) THEN [st EXCEPT !.loop = "done"]
  ELSE IF st.short_cut_right[st.i] < p3
    THEN [st EXCEPT !.loop = "q3in", !.l = st.short_cut_right[st.i]]
  ELSE IF st.short_cut_right[st.i] > p3
    THEN [st EXCEPT !.r = st.short_cut_right[st.i], !.i = @ + 1]
  ELSE [st EXCEPT !.q3 = Rd(st.buf, p3), !.loop = "done"]

\* tlsh.ts:403-411: one round of the inner loop for q3
stepWithinQ3(st, p) ==
  IF p.ret > p3 THEN [st EXCEPT !.buf = p.buf, !.r = p.ret - 1]
  ELSE IF p.ret < p3 THEN [st EXCEPT !.buf = p.buf, !.l = p.ret + 1]
  ELSE [st EXCEPT !.buf = p.buf, !.q3 = Rd(p.buf, p3), !.loop = "done"]

\* One round of the loop find_quartile is in.
findQuartileRound(st) ==
  CASE st.loop = "q2" -> stepQ2(st, partition(st.buf, st.l, st.r))
    [] st.loop = "q1" -> stepQ1(st)
    [] st.loop = "q1in" -> stepWithinQ1(st, partition(st.buf, st.l, st.r))
    [] st.loop = "q3" -> stepQ3(st)
    [] st.loop = "q3in" -> stepWithinQ3(st, partition(st.buf, st.l, st.r))
    [] OTHER -> st

\* Every loop of find_quartile either ends or narrows l..r or moves i on: this many
\* rounds take a call that returns to its end.
FindQuartileRounds == 6 * EFF_BUCKETS

\* n rounds, or fewer when the last loop ends before.
RECURSIVE findQuartileRounds(_, _)

findQuartileGoOn(st, n) == IF st.loop = "done" THEN st ELSE findQuartileRounds(st, n)

findQuartileRounds(st, n) ==
  IF n <= 1 THEN findQuartileRound(st)
  ELSE findQuartileGoOn(findQuartileRounds(st, n \div 2), n - (n \div 2))

\* Tlsh.find_quartile, tlsh.ts:337-420: the locals at the end of the call, q1, q2 and q3
\* among them
find_quartile(a_bucket) == findQuartileRounds(findQuartileLocals(a_bucket), FindQuartileRounds)

\* The fields of a Tlsh object as its initialisers leave them, tlsh.ts:208-217
TlshFields ==
  [checksum |-> 0,
   slide_window |-> [i \in 0..(SLIDING_WND_SIZE - 1) |-> 0],
   a_bucket |-> [i \in 0..(BUCKETS - 1) |-> 0],
   data_len |-> 0,
   tmp_code |-> [i \in 0..(CODE_SIZE - 1) |-> 0],
   Lvalue |-> 0,
   Q |-> 0,
   lsh_code_valid |-> FALSE]

\* Variant of new_Tlsh that hands out the object of the previous call again.
new_Tlsh_Shared == hasher

\* `new Tlsh()`, tls_hash.ts:9: every call constructs its own object
new_Tlsh == TlshFields

Bump(a_bucket, r) == [a_bucket EXCEPT ![r] = @ + 1]

\* tlsh.ts:250-285, w being the window after the character went in at j
FeedWindow(h, w, j, j_1, j_2, j_3, j_4) ==
  [h EXCEPT
     !.slide_window = w,
     !.checksum = b_mapping(0, w[j], w[j_1], h.checksum),
     !.a_bucket =
       Bump(Bump(Bump(Bump(Bump(Bump(h.a_bucket,
         b_mapping(2, w[j], w[j_1], w[j_2])),
         b_mapping(3, w[j], w[j_1], w[j_3])),
         b_mapping(5, w[j], w[j_2], w[j_3])),
         b_mapping(7, w[j], w[j_2], w[j_4])),
         b_mapping(11, w[j], w[j_1], w[j_4])),
         b_mapping(13, w[j], w[j_3], w[j_4]))]

\* tlsh.ts:246-287, one round of the loop: character c goes to slide_window[j]
Feed(h, c, j, fed_len) ==
  IF fed_len >= 4
    THEN FeedWindow(h, [h.slide_window EXCEPT ![j] = c], j, RNG_IDX(j - 1), RNG_IDX(j - 2),
                    RNG_IDX(j - 3), RNG_IDX(j - 4))
    ELSE [h EXCEPT !.slide_window = [h.slide_window EXCEPT ![j] = c]]

\* tlsh.ts:246, the rounds for the characters lo, ..., hi of str in this order; the
\* object held data_len characters before str
RECURSIVE FeedFrom(_, _, _, _, _)

\* The second half of the rounds, once the first half has given fed.
FeedRest(fed, str, data_len, lo, hi) ==
  IF fed.data_len >= 0 THEN FeedFrom(fed, str, data_len, lo, hi) ELSE fed

FeedFrom(h, str, data_len, lo, hi) ==
  IF lo > hi THEN h
  ELSE IF lo = hi
    THEN Feed(h, str[lo], (data_len + lo - 1) % RNG_SIZE, data_len + lo - 1)
  ELSE FeedRest(FeedFrom(h, str, data_len, lo, (lo + hi) \div 2), str, data_len,
                ((lo + hi) \div 2) + 1, hi)

\* Tlsh.update, tlsh.ts:224-289: the object afterwards, and the error thrown if any
update(h, str) ==
  IF \E i \in 1..Len(str) : str[i] > 255
    THEN [h |-> h, threw |-> "value which is too large"]
    ELSE [h |-> [FeedFrom(h, str, h.data_len, 1, Len(str))
                   EXCEPT !.data_len = h.data_len + Len(str)],
          threw |-> ""]

\* Variant of tooSmall without the minimum length.
tooSmall_Never(h) == FALSE

\* tlsh.ts:296
tooSmall(h) == h.data_len < MIN_DATA_LENGTH

\* tlsh.ts:303-311
nonzero(h) == Cardinality({i \in 0..((4 * CODE_SIZE) - 1) : h.a_bucket[i] > 0})

\* Variant of notEnoughVariation that accepts every histogram.
notEnoughVariation_Never(h) == FALSE

\* tlsh.ts:312
notEnoughVariation(h) == nonzero(h) <= (4 * CODE_SIZE) \div 2

\* tlsh.ts:319-326: the two bits for a bucket count k
Level(q, k) == IF q.q3 < k THEN 3 ELSE IF q.q2 < k THEN 2 ELSE IF q.q1 < k THEN 1 ELSE 0

\* tlsh.ts:316-329, one byte of tmp_code
CodeByte(h, q, i) ==
  Level(q, h.a_bucket[4 * i]) + (4 * Level(q, h.a_bucket[(4 * i) + 1]))
    + (16 * Level(q, h.a_bucket[(4 * i) + 2])) + (64 * Level(q, h.a_bucket[(4 * i) + 3]))

\* ((x * 100) / q3) % 16 as the 4 bits that setQLo / setQHi keep of it
Ratio(x, q3) == IF q3 = 0 THEN 0 ELSE ((x * 100) \div q3) % 16

\* tlsh.ts:316-334, q being the quartiles
finaleCode(h, q) ==
  [h |-> [h EXCEPT
            !.tmp_code = [i \in 0..(CODE_SIZE - 1) |-> CodeByte(h, q, i)],
            !.Lvalue = l_capturing(h.data_len),
            !.Q = setQHi(setQLo(h.Q, Ratio(q.q1, q.q3)), Ratio(q.q2, q.q3)),
            !.lsh_code_valid = TRUE],
   threw |-> ""]

\* tlsh.ts:296-334, u being what update left
finaleChecks(u) ==
  IF u.threw # "" THEN u
  ELSE IF tooSmall(u.h) THEN [h |-> u.h, threw |-> "length too small"]
  ELSE IF notEnoughVariation(u.h) THEN [h |-> u.h, threw |-> "not enough variation"]
  ELSE finaleCode(u.h, find_quartile(u.h.a_bucket))

\* Tlsh.finale, tlsh.ts:291-335
finale(h, str) == finaleChecks(update(h, str))

\* Tlsh.hash, tlsh.ts:421-453: the digest as a sequence of bytes, before to_hex
hash(h) ==
  <<swap_byte(h.checksum), swap_byte(h.Lvalue), swap_byte(h.Q)>>
    \o [i \in 1..CODE_SIZE |-> h.tmp_code[CODE_SIZE - i]]

\* tls_hash.ts:10-11, f being what finale left
tlsHashResult(f) ==
  IF f.threw # "" THEN [threw |-> f.threw, value |-> <<>>, hasher |-> f.h]
  ELSE IF ~f.h.lsh_code_valid
    THEN [threw |-> "ERROR IN PROCESSING", value |-> <<>>, hasher |-> f.h]
  ELSE [threw |-> "", value |-> <<TLSH>> \o to_hex(hash(f.h)), hasher |-> f.h]

\* tlsHash, utilities/tls_hash.ts:8-12: the text returned or the error thrown, and the
\* hasher object as the call leaves it
tlsHash(text) == tlsHashResult(finale(new_Tlsh, text))

\* list.ts:436-461 with sha1 one character early, t being the outcome of tlsHash
contentData_Sha1From256(t, data) ==
  IF t.threw = "" THEN [alg |-> "tlsh", value |-> t.value, hasher |-> t.hasher]
  ELSE IF Len(data) >= 256
    THEN [alg |-> "sha1", value |-> <<SHA1>> \o data, hasher |-> t.hasher]
  ELSE [alg |-> "raw", value |-> data, hasher |-> t.hasher]

\* Variant of createResourceContentData that switches to SHA-1 one character early.
createResourceContentData_Sha1From256(data) == contentData_Sha1From256(tlsHash(data), data)

\* list.ts:436-438 without the catch, t being the outcome of tlsHash
contentData_NoCatch(t, data) ==
  IF t.threw = "" THEN [alg |-> "tlsh", value |-> t.value, hasher |-> t.hasher]
  ELSE [alg |-> "threw", value |-> <<>>, hasher |-> t.hasher]

\* Variant of createResourceContentData that lets the error of tlsHash through.
createResourceContentData_NoCatch(data) == contentData_NoCatch(tlsHash(data), data)

\* list.ts:436-461, t being the outcome of tlsHash(data)
contentData(t, data) ==
  IF t.threw = "" THEN [alg |-> "tlsh", value |-> t.value, hasher |-> t.hasher]
  ELSE IF Len(data) > 256
    THEN [alg |-> "sha1", value |-> <<SHA1>> \o data, hasher |-> t.hasher]
  ELSE [alg |-> "raw", value |-> data, hasher |-> t.hasher]

\* createResourceContentData, list.ts:435-462: the fingerprint as [alg, value], and the
\* hasher object the call used
createResourceContentData(data) == contentData(tlsHash(data), data)

NoContent == [alg |-> "none", value |-> <<>>, size |-> 0]

\* list.ts:398-405, digest being the fingerprint of r.data
ContentOf(r, digest) ==
  IF r.data # <<>>
    THEN [alg |-> digest.alg, value |-> digest.value, size |-> Len(r.data)]
    ELSE NoContent

\* list.ts:407-421
EntryOf(r, content) ==
  [url |-> IF r.url # <<>> /\ (StartsWith(r.url, DATA) \/ StartsWith(r.url, BLOB))
             THEN r.url \o <<LBR>> \o content.value \o <<RBR>>
             ELSE r.url,
   content |-> content,
   type |-> r.type]

\* list.ts:398-416, the output entry of one extracted resource
OutputEntry(r) == EntryOf(r, ContentOf(r, createResourceContentData(r.data)))

\* Variant of BuildOutput that pushes an entry for every extracted resource.
BuildOutput_KeepAll(res) ==
  LET entries == SeqMap(OutputEntry, res)
      Strip(e) == [url |-> e.url, content |-> e.content]
  IN [scripts |-> SeqMap(Strip, SelectSeq(entries, LAMBDA e : e.type = "script")),
      styles  |-> SeqMap(Strip, SelectSeq(entries, LAMBDA e : e.type # "script"))]

\* list.ts:396-423, resultScripts and resultStyles
BuildOutput(res) ==
  LET entries == SelectSeq(SeqMap(OutputEntry, res),
                           LAMBDA e : e.url # <<>> \/ e.content # NoContent)
      Strip(e) == [url |-> e.url, content |-> e.content]
  IN [scripts |-> SeqMap(Strip, SelectSeq(entries, LAMBDA e : e.type = "script")),
      styles  |-> SeqMap(Strip, SelectSeq(entries, LAMBDA e : e.type # "script"))]

\* Sequences of length at most n over the set S.
SeqsUpTo(S, n) == UNION {[1..k -> S] : k \in 0..n}

ScriptEls ==
  { [src |-> U1, onload |-> <<>>, innerHTML |-> <<>>],
    [src |-> U1, onload |-> <<>>, innerHTML |-> <<SP, 1, SP>>],
    [src |-> <<SP>> \o U2, onload |-> <<2>>, innerHTML |-> <<1>>],
    [src |-> <<>>, onload |-> <<>>, innerHTML |-> <<1, 2>>],
    [src |-> <<>>, onload |-> <<>>, innerHTML |-> <<SP>>],
    [src |-> <<DATA, 3, COMMA, 1>>, onload |-> <<2>>, innerHTML |-> <<>>],
    [src |-> <<BLOB, 3>>, onload |-> <<>>, innerHTML |-> <<>>] }

LinkEls == { [href |-> U2], [href |-> U1], [href |-> <<DATA, 4, COMMA, 2>>], [href |-> <<>>] }

StyleEls == { [innerHTML |-> <<1>>], [innerHTML |-> <<>>] }

NetworkResources ==
  { [url |-> U1, data |-> <<3>>, type |-> "script"],
    [url |-> U1, data |-> <<4, 4>>, type |-> "script"],
    [url |-> U2, data |-> <<5>>, type |-> "stylesheet"],
    [url |-> U2, data |-> <<>>, type |-> "stylesheet"] }

NoFilter == [mode |-> "resources", kind |-> "none", previousContent |-> NotGiven]

MergeOff ==
  /\ dom = [scripts |-> <<>>, links |-> <<>>, styles |-> <<>>]
  /\ network = <<>>
  /\ extracted = <<>>
  /\ output = [scripts |-> <<>>, styles |-> <<>>]
  /\ mpc = "off"
  /\ filter = NoFilter
  /\ invocations = <<>>

MergeInit ==
  /\ dom \in [scripts : SeqsUpTo(ScriptEls, MaxScripts),
              links : SeqsUpTo(LinkEls, MaxLinks),
              styles : SeqsUpTo(StyleEls, MaxStyles)]
  /\ network \in SeqsUpTo(NetworkResources, MaxNetwork)
  /\ extracted = <<>>
  /\ output = [scripts |-> <<>>, styles |-> <<>>]
  /\ mpc = "page"
  /\ filter = NoFilter
  /\ invocations = <<>>

\* Documents for the requests with a user script: a script with a src, an inline script,
\* an empty script; a stylesheet link, an empty link; a style, an empty style.
FilterScriptEls ==
  { [src |-> U1, onload |-> <<>>, innerHTML |-> <<SP, 1, SP>>],
    [src |-> <<>>, onload |-> <<>>, innerHTML |-> <<1, 2>>],
    [src |-> <<>>, onload |-> <<>>, innerHTML |-> <<SP>>] }

FilterLinkEls == { [href |-> U2], [href |-> <<>>] }

\* previousContent of a content request: none, the JSON text "7", and a text that is
\* not JSON
PreviousContents == {NotGiven, Str(<<34, 55, 34>>), Str(<<55, 34>>)}

\* The requests: the resources route with or without resourceFilterMap, the content
\* route with or without extractContent.
Filters ==
  [mode : {"resources"}, kind : FilterKinds \cup {"none"}, previousContent : {NotGiven}]
    \cup [mode : {"content"}, kind : {"none", "identity"}, previousContent : PreviousContents]

FilterInit ==
  /\ dom \in [scripts : SeqsUpTo(FilterScriptEls, MaxScripts),
              links : SeqsUpTo(FilterLinkEls, MaxLinks),
              styles : SeqsUpTo(StyleEls, MaxStyles)]
  /\ network \in SeqsUpTo(NetworkResources, MaxNetwork)
  /\ extracted = <<>>
  /\ output = [scripts |-> <<>>, styles |-> <<>>]
  /\ mpc = "page"
  /\ filter \in Filters
  /\ invocations = <<>>

\* page.evaluate(...), list.ts:240-388, f being what the flatMap over the combined
\* resources gives
Evaluated(f) ==
  /\ extracted' = f.kept
  /\ invocations' = f.calls
  /\ mpc' = IF f.threw THEN "failed" ELSE "evaluated"

\* page.evaluate(...), list.ts:240-388
EvaluateResources ==
  /\ mpc = "page" /\ filter.mode = "resources"
  /\ Evaluated(FilteredResources(filter.kind, CombinedResources(dom, network)))
  /\ UNCHANGED <<dom, network, output, filter>>
  /\ UNCHANGED otherThanMerge

\* extractContent(...), get.ts:254-286
EvaluateContent ==
  /\ mpc = "page" /\ filter.mode = "content"
  /\ invocations' = ExtractContentCalls(filter, network).calls
  /\ mpc' = IF ExtractContentCalls(filter, network).threw THEN "failed" ELSE "content"
  /\ UNCHANGED <<dom, network, extracted, output, filter>>
  /\ UNCHANGED otherThanMerge

\* list.ts:396-423
FingerprintResources ==
  /\ mpc = "evaluated"
  /\ output' = BuildOutput(extracted)
  /\ mpc' = "done"
  /\ UNCHANGED <<dom, network, extracted, filter, invocations>>
  /\ UNCHANGED otherThanMerge

MergeNext == EvaluateResources \/ FingerprintResources

FilterNext == EvaluateResources \/ EvaluateContent \/ FingerprintResources
(***************************************************************************)
(* Part 3 definitions.                                                     *)
(***************************************************************************)
NoCutoff == [taken |-> FALSE, snapshot |-> <<>>, issued |-> {}, settled |-> {}]

Issued == {r \in Reads : reads[r] # "none"}

SettledReads == {r \in Reads : reads[r] \in {"done", "failed"}}

\* request.body.url and request.body.waitSelector, as they appear in messages
URL == "https://secutils.dev"
SELECTOR == "#app"

\* constants.ts:4
DEFAULT_TIMEOUT_MS == 10000

\* request.body.timeout: absent, or a number of milliseconds
Timeouts == {Undefined, 5000}

Requests ==
  [mode : {"resources", "content"}, script : BOOLEAN, waitSelector : BOOLEAN,
   timeout : Timeouts]

\* `timeout = DEFAULT_TIMEOUT_MS` in the parameters, list.ts:154 / get.ts:138
timeout(r) == IF r.timeout = Undefined THEN DEFAULT_TIMEOUT_MS ELSE r.timeout

NoTimeouts == [goto |-> Undefined, waitForSelector |-> Undefined]

\* A thrown value: an Error (text is its message), a string (text is the string), or
\* anything else.
NoError == [kind |-> "none", text |-> <<>>]

\* What a rejected await of the given call throws.
Rejection(step) == [kind |-> "Error", text |-> <<step, " has failed">>]

\* What a user script may throw: the Error of list.test.ts:367-369, a string, null.
ScriptThrown ==
  {[kind |-> "Error", text |-> <<"something went wrong">>],
   [kind |-> "string", text |-> <<"oops">>],
   [kind |-> "null", text |-> <<>>]}

\* What the browser driver may put in front of the message of an error thrown in the page.
Transports == {<<>>, <<"page.evaluate: Error: ">>}

\* Diagnostics.errorMessage, diagnostics.ts:35-45
errorMessage(err) ==
  CASE err.kind = "string" -> err.text
    [] err.kind = "Error" -> err.text
    [] err.kind = "object" -> <<"Unknown error">>
    [] OTHER -> <<"UNKNOWN">>

\* `(err as Error)?.message ?? err`, list.ts:383 / get.ts:282
ThrownText(e) ==
  CASE e.kind = "Error" -> e.text
    [] e.kind = "string" -> e.text
    [] OTHER -> <<e.kind>>

\* The Error the in-page catch block throws, list.ts:380-384 / get.ts:278-283, as
\* page.evaluate rejects with it.
InPageError(mode, e, via) ==
  [kind |-> "Error",
   text |-> via
            \o <<IF mode = "content" THEN "Content extractor script has thrown an exception: "
                 ELSE "Resources filter script has thrown an exception: ">>
            \o ThrownText(e) \o <<".">>]

\* list.ts:213 / get.ts:192
LoadFailed(err) == <<"Failed to load page ", URL, ": ">> \o errorMessage(err)

\* list.ts:224-226 / get.ts:203-205
SelectorFailed(err) ==
  <<"Failed to retrieve selector ", SELECTOR, " for page ", URL, ": ">> \o errorMessage(err)

\* list.ts:142-144 / get.ts:122-124
GenericMessage(mode) ==
  <<IF mode = "content" THEN "Cannot retrieve content for page "
    ELSE "Cannot retrieve resources for page ",
    URL, ". Check the server logs for more details.">>

NoFailure == [step |-> "", by |-> "", cause |-> NoError]

ReqOff ==
  /\ rq = [mode |-> "resources", script |-> FALSE, waitSelector |-> FALSE,
           timeout |-> Undefined]
  /\ rpc = "off"
  /\ opened = {} /\ closeTried = {} /\ fetchEnabled = FALSE
  /\ reads = [r \in Reads |-> "none"]
  /\ externalResources = <<>>
  /\ cutoff = NoCutoff
  /\ result = "none" /\ status = 0
  /\ error = <<>> /\ failure = NoFailure /\ trail = <<>> /\ message = <<>>
  /\ served = <<>>
  /\ stored = FALSE /\ timeouts = NoTimeouts /\ logged = {}

\* The handler is entered with a request whose cache key is not in the cache and
\* awaits acquireBrowser(), list.ts:120-124 / get.ts:104-106.
ReqInit ==
  /\ rq \in Requests
  /\ rpc = "acquire"
  /\ opened = {} /\ closeTried = {} /\ fetchEnabled = FALSE
  /\ reads = [r \in Reads |-> "none"]
  /\ externalResources = <<>>
  /\ cutoff = NoCutoff
  /\ result = "none" /\ status = 0
  /\ error = <<>> /\ failure = NoFailure /\ trail = <<>> /\ message = <<>>
  /\ served = <<>>
  /\ stored = FALSE /\ timeouts = NoTimeouts /\ logged = {}

\* The await `step` resolved and the code runs on to the await `next`.
Proceed(step, next) ==
  /\ rpc' = next
  /\ trail' = Append(trail, step)
  /\ UNCHANGED <<result, error, failure>>

\* The await `step` rejected outside every try block of getResourcesList / getContent:
\* the exception reaches the catch of the handler, list.ts:139-141 / get.ts:119-121,
\* which awaits Diagnostics.screenshot.
Throws(step, err) ==
  /\ rpc' = "screenshot"
  /\ result' = "exception"
  /\ error' = errorMessage(err)
  /\ failure' = [step |-> step, by |-> "await", cause |-> err]
  /\ trail' = Append(trail, step)

\* `return { type: 'client-error', error }`, list.ts:215, 228, 391; get.ts:194, 207, 225;
\* the handler logs it and awaits Diagnostics.screenshot, list.ts:129-131 / get.ts:110-112.
ClientError(step, by, cause, text) ==
  /\ rpc' = "screenshot"
  /\ result' = "client-error"
  /\ error' = text
  /\ failure' = [step |-> step, by |-> by, cause |-> cause]
  /\ trail' = Append(trail, step)

\* Variant of NavigationFailure in which page.goto is not inside a try block.
NavigationFailure_Uncaught(err) == Throws("goto", err)

\* list.ts:212-216 / get.ts:191-195
NavigationFailure(err) == ClientError("goto", "await", err, LoadFailed(err))

\* list.ts:223-229 / get.ts:202-208
SelectorFailure(err) == ClientError("waitForSelector", "await", err, SelectorFailed(err))

\* Variant of ExtractionFailure in which the extraction is not inside a try block.
ExtractionFailure_Uncaught(step, by, cause, err) ==
  /\ rpc' = "screenshot"
  /\ result' = "exception"
  /\ error' = errorMessage(err)
  /\ failure' = [step |-> step, by |-> by, cause |-> cause]
  /\ trail' = Append(trail, step)

\* list.ts:388-392 / get.ts:223-226: err is what the try block threw, cause the value
\* it goes back to.
ExtractionFailure(step, by, cause, err) == ClientError(step, by, cause, errorMessage(err))

\* list.ts:158-164 / get.ts:164-172: the init script is added only when one was supplied.
AfterSetup == IF rq.script THEN "addInitScript" ELSE "goto"

\* `const browser = await acquireBrowser()`, list.ts:124 / get.ts:106, settles.  The await
\* stands before the try block: a rejection (a failed launch, index.ts:99-102) leaves the
\* handler as the rejection of its promise.
Acquire(ok) ==
  /\ rpc = "acquire"
  /\ IF ok THEN Proceed("acquire", IF rq.mode = "content" THEN "newContext" ELSE "newPage")
           ELSE /\ rpc' = "errorHandler"
                /\ result' = "escaped"
                /\ error' = errorMessage(Rejection("acquire"))
                /\ failure' = [step |-> "acquire", by |-> "await",
                               cause |-> Rejection("acquire")]
                /\ trail' = Append(trail, "acquire")
  /\ UNCHANGED <<rq, opened, closeTried, fetchEnabled, reads, externalResources, cutoff,
                 status, message, served,
                 stored, timeouts, logged>>
  /\ UNCHANGED otherThanReq

\* get.ts:145
NewContext(ok) ==
  /\ rpc = "newContext"
  /\ IF ok THEN opened' = opened \cup {"context"} /\ Proceed("newContext", "newPage")
           ELSE opened' = opened /\ Throws("newContext", Rejection("newContext"))
  /\ UNCHANGED <<rq, closeTried, fetchEnabled, reads, externalResources, cutoff, status,
                 message, served,
                 stored, timeouts, logged>>
  /\ UNCHANGED otherThanReq

\* list.ts:156 / get.ts:146
NewPage(ok) ==
  /\ rpc = "newPage"
  /\ IF ok THEN /\ opened' = opened \cup {"page"}
                /\ Proceed("newPage", IF rq.mode = "content" THEN "cdp" ELSE AfterSetup)
           ELSE opened' = opened /\ Throws("newPage", Rejection("newPage"))
  /\ UNCHANGED <<rq, closeTried, fetchEnabled, reads, externalResources, cutoff, status,
                 message, served,
                 stored, timeouts, logged>>
  /\ UNCHANGED otherThanReq

\* get.ts:149-151: newCDPSession, Network.clearBrowserCache, Network.setCacheDisabled
CdpSetup(ok) ==
  /\ rpc = "cdp"
  /\ IF ok THEN Proceed("cdp", "interceptorStart") ELSE Throws("cdp", Rejection("cdp"))
  /\ UNCHANGED <<rq, opened, closeTried, fetchEnabled, reads, externalResources, cutoff,
                 status, message, served,
                 stored, timeouts, logged>>
  /\ UNCHANGED otherThanReq

\* get.ts:153-154 and fetch_interceptor.ts:21-57: Fetch.enable
InterceptorStart(ok) ==
  /\ rpc = "interceptorStart"
  /\ IF ok THEN fetchEnabled' = TRUE /\ Proceed("interceptorStart", "route")
           ELSE /\ fetchEnabled' = fetchEnabled
                /\ Throws("interceptorStart", Rejection("interceptorStart"))
  /\ UNCHANGED <<rq, opened, closeTried, reads, externalResources, cutoff, status, message, served,
                 stored, timeouts, logged>>
  /\ UNCHANGED otherThanReq

\* get.ts:157-162
Route(ok) ==
  /\ rpc = "route"
  /\ IF ok THEN Proceed("route", AfterSetup) ELSE Throws("route", Rejection("route"))
  /\ UNCHANGED <<rq, opened, closeTried, fetchEnabled, reads, externalResources, cutoff,
                 status, message, served,
                 stored, timeouts, logged>>
  /\ UNCHANGED otherThanReq

\* list.ts:159-164 / get.ts:165-172
AddInitScript(ok) ==
  /\ rpc = "addInitScript"
  /\ IF ok THEN Proceed("addInitScript", "goto")
           ELSE Throws("addInitScript", Rejection("addInitScript"))
  /\ UNCHANGED <<rq, opened, closeTried, fetchEnabled, reads, externalResources, cutoff,
                 status, message, served,
                 stored, timeouts, logged>>
  /\ UNCHANGED otherThanReq

\* Variant of Goto that goes on to the delay whether a waitSelector was given or not.
Goto_SkipsSelector(ok) ==
  /\ rpc = "goto"
  /\ IF ok THEN Proceed("goto", "delay") ELSE NavigationFailure(Rejection("goto"))
  /\ timeouts' = [timeouts EXCEPT !.goto = timeout(rq)]
  /\ UNCHANGED <<rq, opened, closeTried, fetchEnabled, reads, externalResources, cutoff,
                 status, message, served, stored, logged>>
  /\ UNCHANGED otherThanReq

\* list.ts:209-216 / get.ts:188-195
Goto(ok) ==
  /\ rpc = "goto"
  /\ IF ok THEN Proceed("goto", IF rq.waitSelector THEN "waitForSelector" ELSE "delay")
           ELSE NavigationFailure(Rejection("goto"))
  /\ timeouts' = [timeouts EXCEPT !.goto = timeout(rq)]
  /\ UNCHANGED <<rq, opened, closeTried, fetchEnabled, reads, externalResources, cutoff,
                 status, message, served,
                 stored, logged>>
  /\ UNCHANGED otherThanReq

\* list.ts:218-230 / get.ts:197-209
WaitForSelector(ok) ==
  /\ rpc = "waitForSelector"
  /\ IF ok THEN Proceed("waitForSelector", "delay")
           ELSE SelectorFailure(Rejection("waitForSelector"))
  /\ timeouts' = [timeouts EXCEPT !.waitForSelector = timeout(rq)]
  /\ UNCHANGED <<rq, opened, closeTried, fetchEnabled, reads, externalResources, cutoff,
                 status, message, served,
                 stored, logged>>
  /\ UNCHANGED otherThanReq

\* list.ts:233-239 / get.ts:212-217: the delay elapses; the next await is
\* page.evaluateHandle (resources) or fetchInterceptor.stop() (content).
Delay ==
  /\ rpc = "delay"
  /\ Proceed("delay", IF rq.mode = "content" THEN "interceptorStop" ELSE "evaluateHandle")
  /\ UNCHANGED <<rq, opened, closeTried, fetchEnabled, reads, externalResources, cutoff,
                 status, message, served,
                 stored, timeouts, logged>>
  /\ UNCHANGED otherThanReq

\* get.ts:217-222 and fetch_interceptor.ts:59-62: Fetch.disable, then response.allHeaders()
\* (user script) or page.content().
InterceptorStop(ok) ==
  /\ rpc = "interceptorStop"
  /\ IF ok THEN /\ fetchEnabled' = FALSE
                /\ Proceed("interceptorStop", IF rq.script THEN "allHeaders" ELSE "pageContent")
           ELSE /\ fetchEnabled' = fetchEnabled
                /\ ExtractionFailure("interceptorStop", "await", Rejection("interceptorStop"),
                                     Rejection("interceptorStop"))
  /\ UNCHANGED <<rq, opened, closeTried, reads, externalResources, cutoff, status, message, served,
                 stored, timeouts, logged>>
  /\ UNCHANGED otherThanReq

\* get.ts:220, then extractContent up to page.evaluateHandle (get.ts:261)
AllHeaders(ok) ==
  /\ rpc = "allHeaders"
  /\ IF ok THEN Proceed("allHeaders", "evaluateHandle")
           ELSE ExtractionFailure("allHeaders", "await", Rejection("allHeaders"),
                                  Rejection("allHeaders"))
  /\ UNCHANGED <<rq, opened, closeTried, fetchEnabled, reads, externalResources, cutoff,
                 status, message, served,
                 stored, timeouts, logged>>
  /\ UNCHANGED otherThanReq

\* list.ts:239-240, 387 / get.ts:261-262, 286: once the window handle is there,
\* page.evaluate is called with externalResources as it is at that moment.
EvaluateHandle(ok) ==
  /\ rpc = "evaluateHandle"
  /\ IF ok THEN /\ cutoff' = [taken |-> TRUE, snapshot |-> externalResources,
                              issued |-> Issued, settled |-> SettledReads]
                /\ Proceed("evaluateHandle", "evaluate")
           ELSE /\ cutoff' = cutoff
                /\ ExtractionFailure("evaluateHandle", "await", Rejection("evaluateHandle"),
                                     Rejection("evaluateHandle"))
  /\ UNCHANGED <<rq, opened, closeTried, fetchEnabled, reads, externalResources, status,
                 message, served,
                 stored, timeouts, logged>>
  /\ UNCHANGED otherThanReq

\* page.evaluate returns, list.ts:240-392 / get.ts:262-287, 223-226; on success the
\* result is built and page.close() is called, list.ts:396-426 / get.ts:228-245.
Evaluate(ok) ==
  /\ rpc = "evaluate"
  /\ IF ok THEN closeTried' = closeTried \cup {"page"} /\ Proceed("evaluate", "closePage")
           ELSE /\ closeTried' = closeTried
                /\ ExtractionFailure("evaluate", "await", Rejection("evaluate"),
                                     Rejection("evaluate"))
  /\ UNCHANGED <<rq, opened, fetchEnabled, reads, externalResources, cutoff, status,
                 message, served,
                 stored, timeouts, logged>>
  /\ UNCHANGED otherThanReq

\* The user script throws e inside page.evaluate: the in-page catch throws its own Error
\* (list.ts:380-384 / get.ts:278-283) and page.evaluate rejects with it.
ScriptThrows(e, via) ==
  /\ rpc = "evaluate" /\ rq.script
  /\ ExtractionFailure("evaluate", "script", e, InPageError(rq.mode, e, via))
  /\ UNCHANGED <<rq, opened, closeTried, fetchEnabled, reads, externalResources, cutoff,
                 status, message, served,
                 stored, timeouts, logged>>
  /\ UNCHANGED otherThanReq

\* get.ts:221, 223-226, then 228-245
PageContent(ok) ==
  /\ rpc = "pageContent"
  /\ IF ok THEN closeTried' = closeTried \cup {"page"} /\ Proceed("pageContent", "closePage")
           ELSE /\ closeTried' = closeTried
                /\ ExtractionFailure("pageContent", "await", Rejection("pageContent"),
                                     Rejection("pageContent"))
  /\ UNCHANGED <<rq, opened, fetchEnabled, reads, externalResources, cutoff, status,
                 message, served,
                 stored, timeouts, logged>>
  /\ UNCHANGED otherThanReq

\* `return { type: 'success', ... }`, list.ts:432 / get.ts:252; the handler stores the data
\* in the cache, list.ts:134-135 / get.ts:115-116.
Success(step) ==
  /\ rpc' = "respond"
  /\ result' = "success"
  /\ trail' = Append(trail, step)
  /\ UNCHANGED <<error, failure>>

\* Variant of ClosePage in which page.close() is not inside a try block.
ClosePage_Uncaught(ok) ==
  /\ rpc = "closePage"
  /\ IF ~ok THEN closeTried' = closeTried /\ Throws("closePage", Rejection("closePage"))
     ELSE IF rq.mode = "content"
       THEN closeTried' = closeTried \cup {"context"} /\ Proceed("closePage", "closeContext")
       ELSE closeTried' = closeTried /\ Success("closePage")
  /\ logged' = IF ok THEN logged ELSE logged \cup {"close"}
  /\ UNCHANGED <<rq, opened, fetchEnabled, reads, externalResources, cutoff, status,
                 message, served, stored, timeouts>>
  /\ UNCHANGED otherThanReq

\* page.close() settles, list.ts:426-432 / get.ts:245-252: a failure is logged, and in
\* getContent it skips context.close().
ClosePage(ok) ==
  /\ rpc = "closePage"
  /\ IF ok /\ rq.mode = "content"
       THEN closeTried' = closeTried \cup {"context"} /\ Proceed("closePage", "closeContext")
       ELSE closeTried' = closeTried /\ Success("closePage")
  /\ logged' = IF ok THEN logged ELSE logged \cup {"close"}
  /\ UNCHANGED <<rq, opened, fetchEnabled, reads, externalResources, cutoff, status,
                 message, served,
                 stored, timeouts>>
  /\ UNCHANGED otherThanReq

\* context.close() settles, get.ts:246-252
CloseContext(ok) ==
  /\ rpc = "closeContext"
  /\ Success("closeContext")
  /\ logged' = IF ok THEN logged ELSE logged \cup {"close"}
  /\ UNCHANGED <<rq, opened, closeTried, fetchEnabled, reads, externalResources, cutoff,
                 status, message, served,
                 stored, timeouts>>
  /\ UNCHANGED otherThanReq

\* Variant of Screenshot in which a failure to capture is not caught: in the 400 branch it
\* lands in the catch of the handler, in the catch it leaves the handler.
Screenshot_Uncaught(ok) ==
  /\ rpc = "screenshot"
  /\ IF ok THEN Proceed("screenshot", "respond")
           ELSE /\ rpc' = (IF result = "client-error" THEN "respond" ELSE "errorHandler")
                /\ result' = (IF result = "client-error" THEN "exception" ELSE "escaped")
                /\ trail' = Append(trail, "screenshot")
                /\ UNCHANGED <<error, failure>>
  /\ logged' = IF ok THEN logged ELSE logged \cup {"screenshot"}
  /\ UNCHANGED <<rq, opened, closeTried, fetchEnabled, reads, externalResources, cutoff,
                 status, message, served, stored, timeouts>>
  /\ UNCHANGED otherThanReq

\* `await Diagnostics.screenshot(log, browser)` settles, diagnostics.ts:5-33.  ok: the
\* screenshots were taken, or the browser is not connected and none was tried; ~ok:
\* capturing threw, which the catch of diagnostics.ts:30-32 logs.  Either way the call
\* returns and the handler goes on to its reply.
Screenshot(ok) ==
  /\ rpc = "screenshot"
  /\ Proceed("screenshot", "respond")
  /\ logged' = IF ok THEN logged ELSE logged \cup {"screenshot"}
  /\ UNCHANGED <<rq, opened, closeTried, fetchEnabled, reads, externalResources, cutoff,
                 status, message, served,
                 stored, timeouts>>
  /\ UNCHANGED otherThanReq

\* The reply of the route handler, list.ts:132, 142-146 / get.ts:113, 122-127
Respond ==
  /\ rpc = "respond"
  /\ status' = CASE result = "success" -> 200
                 [] result = "client-error" -> 400
                 [] OTHER -> 500
  /\ message' = CASE result = "success" -> <<>>
                  [] result = "client-error" -> error
                  [] OTHER -> GenericMessage(rq.mode)
  /\ rpc' = "done"
  /\ stored' = (result = "success")
  /\ UNCHANGED <<rq, opened, closeTried, fetchEnabled, reads, externalResources, cutoff,
                 result, error, failure, trail, served,
                 timeouts, logged>>
  /\ UNCHANGED otherThanReq

\* The handler's promise rejected and the server has no error handler of its own
\* (index.ts:20-22): the framework's default one replies 500 with the error's message.
DefaultErrorHandler ==
  /\ rpc = "errorHandler"
  /\ status' = 500
  /\ message' = errorMessage(failure.cause)
  /\ rpc' = "done"
  /\ UNCHANGED <<rq, opened, closeTried, fetchEnabled, reads, externalResources, cutoff,
                 result, error, failure, trail, served,
                 stored, timeouts, logged>>
  /\ UNCHANGED otherThanReq

\* The reply is out and the server takes up another request with another cache key.
NextRequest(r) ==
  /\ rpc = "done"
  /\ Len(served) + 1 < MaxRequests
  /\ served' = Append(served, [by |-> failure.by, status |-> status])
  /\ rq' = r
  /\ rpc' = "acquire"
  /\ opened' = {} /\ closeTried' = {} /\ fetchEnabled' = FALSE
  /\ reads' = [q \in Reads |-> "none"]
  /\ externalResources' = <<>>
  /\ cutoff' = NoCutoff
  /\ result' = "none" /\ status' = 0
  /\ error' = <<>> /\ failure' = NoFailure /\ trail' = <<>> /\ message' = <<>>
  /\ stored' = FALSE /\ timeouts' = NoTimeouts /\ logged' = {}
  /\ UNCHANGED otherThanReq

\* page.goto has been called: responses can arrive.
Navigated == rpc = "goto" \/ \E i \in 1..Len(trail) : trail[i] = "goto"

\* A qualifying response arrives and its body read is issued: page.on('response'),
\* list.ts:177-188, or Fetch.requestPaused with a 2xx status, fetch_interceptor.ts:23-26.
ResponseEvent(r) ==
  /\ Navigated /\ "page" \in opened
  /\ rq.mode = "content" => fetchEnabled
  /\ reads[r] = "none" /\ \A q \in 1..(r - 1) : reads[q] # "none"
  /\ reads' = [reads EXCEPT ![r] = "pending"]
  /\ UNCHANGED <<rq, rpc, opened, closeTried, fetchEnabled, externalResources, cutoff,
                 result, status, error, failure, trail, message, served,
                 stored, timeouts, logged>>
  /\ UNCHANGED otherThanReq

\* Variant of BodyRead that records a resource for a failed read as well.
BodyRead_PushAlways(r, ok) ==
  /\ reads[r] = "pending"
  /\ reads' = [reads EXCEPT ![r] = IF ok THEN "done" ELSE "failed"]
  /\ externalResources' = Append(externalResources, r)
  /\ logged' = IF ok THEN logged ELSE logged \cup {"body"}
  /\ UNCHANGED <<rq, rpc, opened, closeTried, fetchEnabled, cutoff, result, status, error,
                 failure, trail, message, served, stored, timeouts>>
  /\ UNCHANGED otherThanReq

\* The body read settles: the resource is pushed (list.ts:189-197,
\* fetch_interceptor.ts:27-34) or the failure is logged (list.ts:198-204,
\* fetch_interceptor.ts:38-44).
BodyRead(r, ok) ==
  /\ reads[r] = "pending"
  /\ reads' = [reads EXCEPT ![r] = IF ok THEN "done" ELSE "failed"]
  /\ externalResources' = IF ok THEN Append(externalResources, r) ELSE externalResources
  /\ logged' = IF ok THEN logged ELSE logged \cup {"body"}
  /\ UNCHANGED <<rq, rpc, opened, closeTried, fetchEnabled, cutoff, result, status, error,
                 failure, trail, message, served,
                 stored, timeouts>>
  /\ UNCHANGED otherThanReq

ReqNext ==
  \/ \E ok \in BOOLEAN : Acquire(ok)
  \/ \E ok \in BOOLEAN : NewContext(ok)
  \/ \E ok \in BOOLEAN : NewPage(ok)
  \/ \E ok \in BOOLEAN : CdpSetup(ok)
  \/ \E ok \in BOOLEAN : InterceptorStart(ok)
  \/ \E ok \in BOOLEAN : Route(ok)
  \/ \E ok \in BOOLEAN : AddInitScript(ok)
  \/ \E ok \in BOOLEAN : Goto(ok)
  \/ \E ok \in BOOLEAN : WaitForSelector(ok)
  \/ Delay
  \/ \E ok \in BOOLEAN : InterceptorStop(ok)
  \/ \E ok \in BOOLEAN : AllHeaders(ok)
  \/ \E ok \in BOOLEAN : EvaluateHandle(ok)
  \/ \E ok \in BOOLEAN : Evaluate(ok)
  \/ \E e \in ScriptThrown : \E via \in Transports : ScriptThrows(e, via)
  \/ \E ok \in BOOLEAN : PageContent(ok)
  \/ \E ok \in BOOLEAN : ClosePage(ok)
  \/ \E ok \in BOOLEAN : CloseContext(ok)
  \/ \E ok \in BOOLEAN : Screenshot(ok)
  \/ Respond
  \/ DefaultErrorHandler
  \/ \E r \in Requests : NextRequest(r)
  \/ \E r \in Reads : ResponseEvent(r)
  \/ \E r \in Reads : \E ok \in BOOLEAN : BodyRead(r, ok)

(***************************************************************************)
(* Part 4 definitions.                                                     *)
(***************************************************************************)
\* str.repeat(n)
RECURSIVE Repeat(_, _)
Repeat(str, n) == IF n = 0 THEN <<>> ELSE str \o Repeat(str, n - 1)

\* 'alert(1)', list.test.ts:34
Alert1 == <<97, 108, 101, 114, 116, 40, 49, 41>>

\* 'alert(1);alert(2);alert(3);alert(4);alert(5);console.log(6);', list.test.ts:33
Alerts == <<97, 108, 101, 114, 116, 40, 49, 41, 59, 97, 108, 101, 114, 116, 40, 50, 41, 59, 97, 108, 101, 114, 116, 40, 51, 41, 59, 97, 108, 101, 114, 116, 40, 52, 41, 59, 97, 108, 101, 114, 116, 40, 53, 41, 59, 99, 111, 110, 115, 111, 108, 101, 46, 108, 111, 103, 40, 54, 41, 59>>

\* n bytes without a pattern
Varied(n) == [i \in 1..n |-> V_TABLE[((i - 1) % 256) + 1]]

\* n times the letter a
Uniform(n) == [i \in 1..n |-> 97]

\* n characters, the last of them outside Latin-1
Wide(n) == [i \in 1..n |-> IF i = n THEN 8364 ELSE V_TABLE[((i - 1) % 256) + 1]]

\* Contents around the thresholds of tlsh.ts:296, tlsh.ts:312 and list.ts:456, and the
\* contents of list.test.ts:33-35.
Contents ==
  {Varied(MIN_DATA_LENGTH - 1), Varied(MIN_DATA_LENGTH), Varied(257),
   Uniform(1), Uniform(MIN_DATA_LENGTH), Uniform(256), Uniform(257),
   Alert1, Alerts, Repeat(Alert1, 33), Wide(MIN_DATA_LENGTH)}

\* No find_quartile call is running.
NoCall == [findQuartileLocals(TlshFields.a_bucket) EXCEPT !.loop = "none"]

FpInit ==
  /\ fingerprints = <<>>
  /\ hasher = TlshFields
  /\ fq = NoCall

\* list.ts:400-405, d being what createResourceContentData returned
Fingerprinted(data, d) ==
  /\ fingerprints' =
       Append(fingerprints,
              [data |-> data,
               content |-> [alg |-> d.alg, value |-> d.value, size |-> Len(data)]])
  /\ hasher' = d.hasher
  /\ fq' = fq

\* list.ts:398-405: the content of one resource with non-empty data
Fingerprint(data) ==
  /\ Len(fingerprints) < MaxFingerprints
  /\ Fingerprinted(data, createResourceContentData(data))
  /\ UNCHANGED otherThanFp

FpNext == \E data \in Contents : Fingerprint(data)

\* A histogram whose first EFF_BUCKETS buckets are given by f, the others being 0.
Histogram(f) == [i \in 0..(BUCKETS - 1) |-> IF i <= end THEN f[i] ELSE 0]

\* The histograms find_quartile is run on: equal counts, sorted and reversed counts,
\* counts with few and with many repetitions, counts without a pattern, one count apart
\* from the others, and the histograms that update builds from the contents.
Histograms ==
  {Histogram([i \in 0..end |-> 0]), Histogram([i \in 0..end |-> 7]),
   Histogram([i \in 0..end |-> i]), Histogram([i \in 0..end |-> end - i]),
   Histogram([i \in 0..end |-> i \div 4]), Histogram([i \in 0..end |-> (end - i) \div 32]),
   Histogram([i \in 0..end |-> i % 2]), Histogram([i \in 0..end |-> (i + 1) % 2]),
   Histogram([i \in 0..end |-> i % 3]),
   Histogram([i \in 0..end |-> IF i < p2 THEN i ELSE end - i]),
   Histogram([i \in 0..end |-> IF i < p2 THEN p2 - i ELSE i - p2]),
   Histogram([i \in 0..end |-> IF i = 0 THEN 2147483647 ELSE 0]),
   Histogram([i \in 0..end |-> IF i = end THEN 0 ELSE 1]),
   Histogram([i \in 0..end |-> IF i = p2 THEN 9 ELSE 3])}
  \cup {Histogram([i \in 0..end |-> V_TABLE[((i + k) % 256) + 1] % m]) :
          k \in {0, 64, 128}, m \in {2, 5, 256}}
  \cup {update(new_Tlsh, data).h.a_bucket : data \in Contents}

\* The call has copied the buckets, tlsh.ts:338-353.
QuartileInit ==
  /\ fingerprints = <<>>
  /\ hasher \in {[TlshFields EXCEPT !.a_bucket = h] : h \in Histograms}
  /\ fq = findQuartileLocals(hasher.a_bucket)

\* The find_quartile call is in one of its loops.
Running == fq.loop \notin {"none", "done"}

\* One round of the loop the find_quartile call is in, tlsh.ts:355-419.
FindQuartileStep ==
  /\ Running
  /\ fq' = findQuartileRound(fq)
  /\ UNCHANGED <<fingerprints, hasher>>
  /\ UNCHANGED otherThanFp

QuartileNext == FindQuartileStep

(***************************************************************************)
(* Part 5 definitions.  Strings are sequences of character codes.          *)
(***************************************************************************)
\* number.toString() for a non-negative integer
RECURSIVE toString(_)
toString(n) == IF n < 10 THEN <<48 + n>> ELSE toString(n \div 10) \o <<48 + (n % 10)>>

PageA == <<97>>       \* two page URLs
PageB == <<98>>
Selector == <<35, 120>>          \* "#x"
Source == <<102>>                \* the text of a user script
HeaderValue == <<104>>           \* the value of the one header of `headers`

\* The request bodies: a minimal one, and one that differs from it in each of the
\* fields of InputBodyParamsType (list.ts:19-46, get.ts:24-64).  A field that is
\* not in the body is not in the record.
Bodies ==
  {[url |-> PageA],
   [url |-> PageB],
   [url |-> PageA, waitSelector |-> Selector],
   [url |-> PageA, delay |-> 5],
   [url |-> PageA, timeout |-> 7],
   [url |-> PageA, scripts |-> Source],
   [url |-> PageA, headers |-> HeaderValue]}

Endpoints == {"resources", "content"}

Has(body, name) == name \in DOMAIN body

\* Variant of resourcesCacheKey that is made of every field of the body.
resourcesCacheKey_AllFields(body) ==
  body.url \o <<58>>
  \o (IF Has(body, "waitSelector") THEN body.waitSelector ELSE <<45>>) \o <<58>>
  \o (IF Has(body, "delay") THEN toString(body.delay) ELSE <<45>>) \o <<58>>
  \o (IF Has(body, "timeout") THEN toString(body.timeout) ELSE <<45>>) \o <<58>>
  \o (IF Has(body, "scripts") THEN body.scripts ELSE <<45>>) \o <<58>>
  \o (IF Has(body, "headers") THEN body.headers ELSE <<45>>)

\* list.ts:120-122: `${url}:${waitSelector ?? '-'}:${delay?.toString() ?? '-'}`
resourcesCacheKey(body) ==
  body.url \o <<58>>
  \o (IF Has(body, "waitSelector") THEN body.waitSelector ELSE <<45>>) \o <<58>>
  \o (IF Has(body, "delay") THEN toString(body.delay) ELSE <<45>>)

Quoted(str) == <<34>> \o str \o <<34>>

\* The keys of a body in the order fast-json-stable-stringify writes them (sorted),
\* each with its name and its value as JSON text.
Member(body, name) ==
  CASE name = "delay" -> Quoted(<<100, 101, 108, 97, 121>>) \o <<58>> \o toString(body.delay)
    [] name = "headers" ->
         Quoted(<<104, 101, 97, 100, 101, 114, 115>>) \o <<58, 123>>
         \o Quoted(<<120>>) \o <<58>> \o Quoted(body.headers) \o <<125>>
    [] name = "scripts" ->
         Quoted(<<115, 99, 114, 105, 112, 116, 115>>) \o <<58, 123>>
         \o Quoted(<<102>>) \o <<58>> \o Quoted(body.scripts) \o <<125>>
    [] name = "timeout" ->
         Quoted(<<116, 105, 109, 101, 111, 117, 116>>) \o <<58>> \o toString(body.timeout)
    [] name = "url" -> Quoted(<<117, 114, 108>>) \o <<58>> \o Quoted(body.url)
    [] name = "waitSelector" ->
         Quoted(<<119, 97, 105, 116, 83, 101, 108, 101, 99, 116, 111, 114>>) \o <<58>>
         \o Quoted(body.waitSelector)

SortedKeys ==  <<"delay", "headers", "scripts", "timeout", "url", "waitSelector">>

RECURSIVE Members(_, _)
Members(body, i) ==
  IF i > Len(SortedKeys) THEN <<>>
  ELSE IF ~Has(body, SortedKeys[i]) THEN Members(body, i + 1)
  ELSE LET rest == Members(body, i + 1) IN
         Member(body, SortedKeys[i]) \o (IF rest = <<>> THEN <<>> ELSE <<44>> \o rest)

\* fast-json-stable-stringify of a request body
jsonStableStringify(body) == <<123>> \o Members(body, 1) \o <<125>>

\* object_hash.ts:5-7, createHash('sha256').update(...).digest('hex').  The digest is
\* taken to be free of collisions: it is written as the text it was made of.
createObjectHash(body) == jsonStableStringify(body)

\* The key of the copy of the content route in web_page/constants.ts:117-119: the
\* same template as the one of the resources route.
contentCacheKey(body) ==
  body.url \o <<58>>
  \o (IF Has(body, "waitSelector") THEN body.waitSelector ELSE <<45>>) \o <<58>>
  \o (IF Has(body, "delay") THEN toString(body.delay) ELSE <<45>>)

\* The cache key of a request, list.ts:120-122 / get.ts:104 / constants.ts:117-119.
cacheKey(req) ==
  IF req.endpoint = "resources" THEN resourcesCacheKey(req.body)
  ELSE IF contentRoute = "get" THEN createObjectHash(req.body)
  ELSE contentCacheKey(req.body)

\* get.ts:18
MAX_CONTENT_SIZE_BYTES == 1024 * 200

\* Byte sizes of the serialized content of a page, around the limit.
ContentSizes ==
  {MAX_CONTENT_SIZE_BYTES - 1, MAX_CONTENT_SIZE_BYTES, MAX_CONTENT_SIZE_BYTES + 1}

\* get.ts:233-239: the byte size of the JSON string that replaces a content of
\* contentSize bytes, "Extracted content was too large (" + contentSize + " bytes) and
\* has been replaced with the SHA-1 hash: " + 40 hex digits, in quotes.
ReplacementSize(contentSize) == 1 + 33 + Len(toString(contentSize)) + 51 + 40 + 1

\* Variant of LimitContent that returns the content whatever its size.
LimitContent_Never(contentSize) == [size |-> contentSize, replaced |-> FALSE]

\* get.ts:228-242: what is returned for a serialized content of contentSize bytes.
LimitContent(contentSize) ==
  IF contentSize > MAX_CONTENT_SIZE_BYTES
    THEN [size |-> ReplacementSize(contentSize), replaced |-> TRUE]
    ELSE [size |-> contentSize, replaced |-> FALSE]

NoRequest == [endpoint |-> "none", body |-> [url |-> <<>>]]

\* result.data of an extraction: the request and the slot it was made for, the pages
\* whose responses went into it, and for a content the size before and after the limit.
NoData == [by |-> 0, request |-> NoRequest, from |-> {}, extracted |-> 0, size |-> 0,
           replaced |-> FALSE]

IdleSlot ==
  [pc |-> "idle", request |-> NoRequest, key |-> <<>>, call |-> 0, after |-> {},
   headers |-> <<>>, capture |-> {}, hit |-> FALSE, status |-> 0, reply |-> NoData]

ServerInit ==
  /\ cache = <<>>
  /\ slots = [i \in Slots |-> IdleSlot]
  /\ contentRoute = "get"

\* The server with either copy of the content route.
RoutesInit ==
  /\ cache = <<>>
  /\ slots = [i \in Slots |-> IdleSlot]
  /\ contentRoute \in {"get", "constants"}

\* cache.has(key): node-cache keeps one value per key.
cacheHas(key) == key \in DOMAIN cache

\* Variant of cacheSet that keeps the value already stored under the key.
cacheSet_KeepFirst(key, data) ==
  IF key \in DOMAIN cache THEN cache ELSE [k \in DOMAIN cache \cup {key} |-> data]

\* cache.set(key, data)
cacheSet(key, data) ==
  [k \in DOMAIN cache \cup {key} |-> IF k = key THEN data ELSE cache[k]]

Done == {i \in Slots : slots[i].pc = "done"}

\* Variant of Hit that asks for the browser before it looks into the cache.
Hit_Acquires(i, req) ==
  /\ slots[i].pc = "idle"
  /\ cacheHas(cacheKey(req))
  /\ Len(calls) < MaxCalls
  /\ (AcquireJoin \/ AcquireLive \/ AcquireLaunch)
  /\ slots' = [slots EXCEPT ![i] =
                 [@ EXCEPT !.pc = "done", !.request = req, !.key = cacheKey(req),
                           !.after = Done, !.hit = TRUE, !.status = 200,
                           !.reply = cache[cacheKey(req)]]]
  /\ UNCHANGED cache
  /\ UNCHANGED otherThanServer

\* A request arrives, its key is in the cache: `return cache.get(cacheKey)`,
\* list.ts:120-123, 146 / get.ts:104-105, 127.
Hit(i, req) ==
  /\ slots[i].pc = "idle"
  /\ cacheHas(cacheKey(req))
  /\ slots' = [slots EXCEPT ![i] =
                 [@ EXCEPT !.pc = "done", !.request = req, !.key = cacheKey(req),
                           !.after = Done, !.hit = TRUE, !.status = 200,
                           !.reply = cache[cacheKey(req)]]]
  /\ UNCHANGED cache
  /\ UNCHANGED mgrVars
  /\ UNCHANGED otherThanServer

\* A request arrives, its key is not in the cache: the handler calls acquireBrowser()
\* and awaits the promise, list.ts:120-124 / get.ts:104-106.
Miss(i, req) ==
  /\ slots[i].pc = "idle"
  /\ ~cacheHas(cacheKey(req))
  /\ Len(calls) < MaxCalls
  /\ (AcquireJoin \/ AcquireLive \/ AcquireLaunch)
  /\ slots' = [slots EXCEPT ![i] =
                 [@ EXCEPT !.pc = "acquire", !.request = req, !.key = cacheKey(req),
                           !.after = Done, !.call = Len(calls) + 1]]
  /\ UNCHANGED cache
  /\ UNCHANGED otherThanServer

\* The promise of acquireBrowser() has settled.  Fulfilled: getResourcesList or
\* getContent opens the page with the headers of this request, list.ts:156 /
\* get.ts:145-146, and registers its observers.  Rejected: the handler promise rejects
\* (no try block around it) and the reply is a 500.
Acquired(i) ==
  /\ slots[i].pc = "acquire"
  /\ calls[slots[i].call].result # 0
  /\ slots' = [slots EXCEPT ![i] =
                 IF calls[slots[i].call].result = Err
                   THEN [@ EXCEPT !.pc = "done", !.status = 500]
                   ELSE [@ EXCEPT !.pc = "extract",
                                  !.headers = IF Has(slots[i].request.body, "headers")
                                                THEN slots[i].request.body.headers
                                                ELSE <<>>]]
  /\ UNCHANGED cache
  /\ UNCHANGED mgrVars
  /\ UNCHANGED otherThanServer

\* Variant of PageResponse with one capture array for all requests.
PageResponse_Shared(p) ==
  /\ slots[p].pc = "extract"
  /\ slots' = [i \in Slots |->
                 IF slots[i].pc = "extract"
                   THEN [slots[i] EXCEPT !.capture = @ \cup {p}] ELSE slots[i]]
  /\ UNCHANGED cache
  /\ UNCHANGED mgrVars
  /\ UNCHANGED otherThanServer

\* The page of request p receives a response: the observers of that page, registered
\* by request p on its own page (list.ts:188-205) or on the CDP session of its own page
\* (get.ts:150-154, fetch_interceptor.ts:17-19, 28-62), record it.
PageResponse(p) ==
  /\ slots[p].pc = "extract"
  /\ p \notin slots[p].capture
  /\ slots' = [slots EXCEPT ![p] = [@ EXCEPT !.capture = @ \cup {p}]]
  /\ UNCHANGED cache
  /\ UNCHANGED mgrVars
  /\ UNCHANGED otherThanServer

\* result.data of request i when the serialized content has contentSize bytes.
Data(i, contentSize) ==
  LET limited == LimitContent(contentSize) IN
    [by |-> i, request |-> slots[i].request, from |-> slots[i].capture,
     extracted |-> contentSize, size |-> limited.size, replaced |-> limited.replaced]

\* getResourcesList / getContent returns a success: cache.set, then the reply is
\* cache.get of the same key, list.ts:135, 146 / get.ts:116, 127.
Extracted(i, contentSize) ==
  /\ slots[i].pc = "extract"
  /\ contentSize = 0 <=> slots[i].request.endpoint = "resources"
  /\ cache' = cacheSet(slots[i].key, Data(i, contentSize))
  /\ slots' = [slots EXCEPT ![i] =
                 [@ EXCEPT !.pc = "done", !.status = 200, !.reply = cache'[slots[i].key]]]
  /\ UNCHANGED mgrVars
  /\ UNCHANGED otherThanServer

\* Variant of Failed that stores a result for the failed request.
Failed_Stores(i, code) ==
  /\ slots[i].pc = "extract"
  /\ cache' = cacheSet(slots[i].key, NoData)
  /\ slots' = [slots EXCEPT ![i] = [@ EXCEPT !.pc = "done", !.status = code]]
  /\ UNCHANGED mgrVars
  /\ UNCHANGED otherThanServer

\* getResourcesList / getContent returns a client error (400) or throws (500): the
\* screenshots are taken and the reply is sent, list.ts:129-133, 136-145 /
\* get.ts:110-114, 117-125.
Failed(i, code) ==
  /\ slots[i].pc = "extract"
  /\ slots' = [slots EXCEPT ![i] = [@ EXCEPT !.pc = "done", !.status = code]]
  /\ UNCHANGED cache
  /\ UNCHANGED mgrVars
  /\ UNCHANGED otherThanServer

\* node-cache drops an entry whose TTL (stdTTL, index.ts:19) has elapsed.
Expire(key) ==
  /\ key \in DOMAIN cache
  /\ cache' = [k \in DOMAIN cache \ {key} |-> cache[k]]
  /\ UNCHANGED slots
  /\ UNCHANGED mgrVars
  /\ UNCHANGED otherThanServer

ServerNext ==
  \/ \E i \in Slots : \E e \in Endpoints : \E b \in Bodies :
       Hit(i, [endpoint |-> e, body |-> b])
  \/ \E i \in Slots : \E e \in Endpoints : \E b \in Bodies :
       Miss(i, [endpoint |-> e, body |-> b])
  \/ \E i \in Slots : Acquired(i)
  \/ \E p \in Slots : PageResponse(p)
  \/ \E i \in Slots : \E n \in ContentSizes \cup {0} : Extracted(i, n)
  \/ \E i \in Slots : \E code \in {400, 500} : Failed(i, code)
  \/ \E key \in DOMAIN cache : Expire(key)
  \/ \E p \in Handles : LaunchOk(p)
  \/ \E p \in Handles : LaunchFail(p)

(***************************************************************************)
(* Part 6 definitions.                                                     *)
(***************************************************************************)
\* event.responseStatusCode: absent (0), a success, a redirect, an error
StatusCodes == {0, 200, 304, 404}

NotPaused == [stage |-> "none", status |-> 0, body |-> "none", continues |-> 0]

\* The interceptor after start(), fetch_interceptor.ts:21-57.
FetchInit ==
  /\ intercepting = TRUE
  /\ paused = [id \in RequestIds |-> NotPaused]
  /\ interceptedResources = <<>>

\* fetch_interceptor.ts:24
isSuccess(code) == code # 0 /\ code > 199 /\ code < 300

\* Fetch.requestPaused arrives for request id, fetch_interceptor.ts:23-25, 48: for a
\* success status the handler asks for the body and waits, otherwise it sends
\* Fetch.continueRequest at once.
RequestPaused(id, code) ==
  /\ intercepting /\ paused[id].stage = "none"
  /\ paused' = [paused EXCEPT ![id] =
                  IF isSuccess(code)
                    THEN [stage |-> "reading", status |-> code, body |-> "pending",
                          continues |-> 0]
                    ELSE [stage |-> "continuing", status |-> code, body |-> "none",
                          continues |-> 1]]
  /\ UNCHANGED <<intercepting, interceptedResources>>
  /\ UNCHANGED otherThanFetch

\* Variant of BodySettled whose Fetch.continueRequest is inside the try block.
BodySettled_ContinueInTry(id, ok) ==
  /\ paused[id].stage = "reading"
  /\ paused' = [paused EXCEPT ![id] =
                  IF ok THEN [@ EXCEPT !.stage = "continuing", !.body = "done",
                                       !.continues = @ + 1]
                  ELSE [@ EXCEPT !.stage = "blocked", !.body = "failed"]]
  /\ interceptedResources' =
       IF ok THEN Append(interceptedResources, id) ELSE interceptedResources
  /\ UNCHANGED intercepting
  /\ UNCHANGED otherThanFetch

\* Fetch.getResponseBody for request id settles, fetch_interceptor.ts:26-48: the
\* resource is pushed or the error is logged, then Fetch.continueRequest is sent.
BodySettled(id, ok) ==
  /\ paused[id].stage = "reading"
  /\ paused' = [paused EXCEPT ![id] =
                  [@ EXCEPT !.stage = "continuing",
                            !.body = IF ok THEN "done" ELSE "failed",
                            !.continues = @ + 1]]
  /\ interceptedResources' =
       IF ok THEN Append(interceptedResources, id) ELSE interceptedResources
  /\ UNCHANGED intercepting
  /\ UNCHANGED otherThanFetch

\* Fetch.continueRequest for request id settles, fetch_interceptor.ts:48-50: a rejection
\* is logged.
ContinueSettled(id, ok) ==
  /\ paused[id].stage = "continuing"
  /\ paused' = [paused EXCEPT ![id] =
                  [@ EXCEPT !.stage = IF ok THEN "released" ELSE "continueFailed"]]
  /\ UNCHANGED <<intercepting, interceptedResources>>
  /\ UNCHANGED otherThanFetch

\* stop(), fetch_interceptor.ts:59-62: Fetch.disable, no further requestPaused events.
FetchStop ==
  /\ intercepting
  /\ intercepting' = FALSE
  /\ UNCHANGED <<paused, interceptedResources>>
  /\ UNCHANGED otherThanFetch

FetchNext ==
  \/ \E id \in RequestIds : \E code \in StatusCodes : RequestPaused(id, code)
  \/ \E id \in RequestIds : \E ok \in BOOLEAN : BodySettled(id, ok)
  \/ \E id \in RequestIds : \E ok \in BOOLEAN : ContinueSettled(id, ok)
  \/ FetchStop

Init == MgrInit /\ MergeOff /\ ReqOff /\ FpInit /\ ServerInit /\ FetchInit
Next == MgrNext
Spec == Init /\ [][Next]_vars

\* The discovery and merge of one page, over every bounded document and capture set.
InitMerge == MgrInit /\ MergeInit /\ ReqOff /\ FpInit /\ ServerInit /\ FetchInit
SpecMerge == InitMerge /\ [][MergeNext]_vars

\* The page evaluation and the output of requests with and without a user script.
InitFilter == MgrInit /\ FilterInit /\ ReqOff /\ FpInit /\ ServerInit /\ FetchInit
SpecFilter == InitFilter /\ [][FilterNext]_vars

\* One request of either endpoint, with or without user script and waitSelector.
InitReq == MgrInit /\ MergeOff /\ ReqInit /\ FpInit /\ ServerInit /\ FetchInit
SpecReq == InitReq /\ [][ReqNext]_vars

\* Contents fingerprinted one after another.
InitFp == MgrInit /\ MergeOff /\ ReqOff /\ FpInit /\ ServerInit /\ FetchInit
SpecFp == InitFp /\ [][FpNext]_vars

\* One find_quartile call, round by round.  The call is synchronous code that nothing
\* suspends: a running call takes its next round.  This is weak fairness of
\* FindQuartileStep, with the guard of the action in the place of ENABLED.
InitQuartile == MgrInit /\ MergeOff /\ ReqOff /\ QuartileInit /\ ServerInit /\ FetchInit
SpecQuartile ==
  /\ InitQuartile /\ [][QuartileNext]_vars
  /\ ([]<>(~Running) \/ []<><<FindQuartileStep>>_vars)

\* Requests of both routes arriving at one server, some of them at the same time.
InitServer == MgrInit /\ MergeOff /\ ReqOff /\ FpInit /\ ServerInit /\ FetchInit
SpecServer == InitServer /\ [][ServerNext]_vars

\* The requests of the resources route for the two pages.
PageRequests == {[endpoint |-> "resources", body |-> [url |-> u]] : u \in {PageA, PageB}}

\* The handlers together with the idle timer of the browser manager.
IdleNext ==
  \/ \E i \in Slots : \E req \in PageRequests : Hit(i, req)
  \/ \E i \in Slots : \E req \in PageRequests : Miss(i, req)
  \/ \E i \in Slots : Acquired(i)
  \/ \E i \in Slots : Extracted(i, 0)
  \/ \E i \in Slots : \E code \in {400, 500} : Failed(i, code)
  \/ \E t \in Timers : TimerFire(t)
  \/ Tick
  \/ \E st \in stops : \E ok \in BOOLEAN : StopBrowserDone(st, ok)
  \/ \E p \in Handles : LaunchOk(p)
  \/ \E p \in Handles : LaunchFail(p)

\* Requests of the resources route at a server whose idle timer runs.
SpecIdle == InitServer /\ [][IdleNext]_vars

\* The requests of both routes for the two pages.
RouteRequests == {[endpoint |-> e, body |-> [url |-> u]] : e \in Endpoints, u \in {PageA, PageB}}

\* The handlers of both routes, the content route being either of its copies.
RoutesNext ==
  \/ \E i \in Slots : \E req \in RouteRequests : Hit(i, req)
  \/ \E i \in Slots : \E req \in RouteRequests : Miss(i, req)
  \/ \E i \in Slots : Acquired(i)
  \/ \E i \in Slots : \E n \in {0, 1} : Extracted(i, n)
  \/ \E i \in Slots : \E code \in {400, 500} : Failed(i, code)
  \/ \E key \in DOMAIN cache : Expire(key)
  \/ \E p \in Handles : LaunchOk(p)
  \/ \E p \in Handles : LaunchFail(p)

InitRoutes == MgrInit /\ MergeOff /\ ReqOff /\ FpInit /\ RoutesInit /\ FetchInit
SpecRoutes == InitRoutes /\ [][RoutesNext]_vars

\* The interceptor of one page.  Every CDP command settles: with its response, or with
\* a rejection when the session is gone.
InitFetch == MgrInit /\ MergeOff /\ ReqOff /\ FpInit /\ ServerInit /\ FetchInit
SpecFetch ==
  /\ InitFetch /\ [][FetchNext]_vars
  /\ \A id \in RequestIds : WF_vars(\E ok \in BOOLEAN : BodySettled(id, ok))

(***************************************************************************)
(* Claims about the browser lifecycle.                                     *)
(***************************************************************************)
CallIds == 1..Len(calls)

\* This step is an acquireBrowser call.
IsAcquire == Len(calls') = Len(calls) + 1

\* The manager holds no handle and no launch is pending.
Absent == browser = 0 /\ browserIsLaunching = 0

\* C1: acquire() calls issued while no browser exists, with no launch settling between
\* them, share one launch: at most one launch is in flight, the calls wait on the same
\* promise, and each receives the outcome of that launch.
C1_SingleFlightLaunch ==
  /\ Cardinality({h \in Handles : proc[h] = "launching"}) <= 1
  /\ \A i \in CallIds : calls[i].saw = 0 =>
       /\ calls[i].promise # 0
       /\ calls[i].result = 0 => calls[i].promise = browserIsLaunching
       /\ calls[i].result # 0 => calls[i].result = Outcome(calls[i].promise)
  /\ \A i, j \in CallIds :
       (calls[i].saw = 0 /\ calls[j].saw = 0 /\ calls[i].settled = calls[j].settled)
         => calls[i].promise = calls[j].promise

\* Two calls that arrived while no browser existed share a launch and got its handle.
C1_Witness ==
  \E i, j \in CallIds :
    /\ i < j /\ calls[i].saw = 0 /\ calls[j].saw = 0
    /\ calls[i].path = "launch" /\ calls[j].path = "join"
    /\ calls[i].promise = calls[j].promise
    /\ calls[i].result \in Handles /\ calls[j].result = calls[i].result

\* C2: at most one launched and not yet closed browser process exists, and it is the one
\* the manager references.
C2_OneBrowserOwned ==
  \A h \in Handles : proc[h] = "running" => browser = h

\* C3: close() is never invoked twice on the same handle, and at most one idle-shutdown
\* timer is pending, the one the manager can still cancel.
C3_NoDoubleStopNoLeakedTimer ==
  /\ \A h \in Handles : closeCalls[h] <= 1
  /\ Cardinality(PendingTimers) <= 1
  /\ PendingTimers \subseteq {browserShutdownTimer}

\* A stop started by the idle timer (p = 0) settles in this step.
TimerStopSettles(s) == s \in stops /\ s.p = 0 /\ s \notin stops'

\* An acquire() in Absent starts a fresh launch, and no call ever returns a handle that
\* was already terminated when the call arrived.
FreshLaunchAfterStop ==
  /\ (IsAcquire /\ Absent) =>
       /\ browserIsLaunching' = launchSeq + 1
       /\ proc[launchSeq + 1] = "none" /\ proc'[launchSeq + 1] = "launching"
  /\ \A i \in CallIds : calls[i].result \notin calls[i].dead

C5_LiveAcquireRearms ==
  [][ (IsAcquire /\ browser # 0 /\ isConnected(browser)) =>
        /\ launchSeq' = launchSeq /\ proc' = proc /\ browser' = browser
        /\ browserIsLaunching' = 0
        /\ calls'[Len(calls')].result = browser
        /\ browserShutdownTimer' \notin PendingTimers
        /\ timerState[browserShutdownTimer'] = "unused"
        /\ PendingTimers' = {browserShutdownTimer'}
        /\ timerLeft'[browserShutdownTimer'] = BrowserTTL ]_vars

\* A live acquire() returned the held handle and cancelled a timer that was still armed.
C5_Witness ==
  \E i \in CallIds : \E t \in Timers :
    /\ calls[i].path = "live" /\ calls[i].sawConnected /\ calls[i].result = calls[i].saw
    /\ timerState[t] = "cleared"

\* C6: an acquire() that finds a held, disconnected handle calls close() on it, starts the
\* launch only after that stop has settled, and returns the newly launched handle or the
\* launch error, never the disconnected handle.
C6_StopThenRelaunch ==
  /\ \A s \in stops : s.p # 0 => proc[s.p] = "none"
  /\ \A i \in CallIds : (calls[i].path = "launch" /\ calls[i].saw # 0) =>
       /\ ~calls[i].sawConnected
       /\ calls[i].saw \in Stopped
       /\ calls[i].result # calls[i].saw
       /\ calls[i].result \in {0, Err, calls[i].promise}
       /\ calls[i].promise > calls[i].saw
       /\ calls[i].result = calls[i].promise => proc[calls[i].promise] # "none"

\* A call found a disconnected handle and received the handle of the relaunch.
C6_Witness ==
  \E i \in CallIds :
    /\ calls[i].path = "launch" /\ calls[i].saw # 0
    /\ calls[i].result = calls[i].promise
    /\ proc[calls[i].saw] = "closed"

\* C7: when a launch fails every call waiting on it receives the error, the manager holds
\* no handle, no pending launch and no armed timer, and the next acquire() starts a new
\* launch attempt.
C7_LaunchFailureResets ==
  [][ /\ \A p \in Handles : (proc[p] = "launching" /\ proc'[p] = "failed") =>
            /\ browser' = 0 /\ browserIsLaunching' = 0 /\ PendingTimers' = {}
            /\ \A i \in CallIds : (calls[i].promise = p /\ calls[i].result = 0)
                                     => calls'[i].result = Err
            /\ \A i \in CallIds : calls[i].result = 0 => calls[i].promise = p
      /\ (IsAcquire /\ launchSeq > 0 /\ proc[launchSeq] = "failed") =>
            /\ launchSeq' = launchSeq + 1
            /\ browserIsLaunching' = launchSeq'
            /\ proc'[launchSeq'] = "launching" ]_vars

\* Two calls received the error of a failed launch, and a later call started a new attempt.
C7_Witness ==
  \E i, j, k \in CallIds :
    /\ i < j /\ j < k
    /\ calls[i].promise = calls[j].promise
    /\ calls[i].result = Err /\ calls[j].result = Err
    /\ calls[k].path = "launch" /\ calls[k].promise > calls[i].promise

(***************************************************************************)
(* Claims about discovery and merge.                                       *)
(***************************************************************************)
OutputEntries == output.scripts \o output.styles

\* The positions of the in-page resources (before the merge) that reference url.
InPageRefs(url) ==
  {i \in 1..Len(InPageResources(dom)) : InPageResources(dom)[i].url = url}

\* The bodies captured from the network for url, in capture order.
NetworkBodies(url) == SeqMap(LAMBDA e : e.data, SelectSeq(network, LAMBDA e : e.url = url))

\* C10: a URL referenced by exactly one in-page element and also captured from the network
\* has exactly one output entry; its content is the in-page content followed by the
\* network body kept for that URL, its size is the sum of both lengths, and the capture is
\* not emitted again as a leftover.
C10_MergedOnce ==
  mpc = "done" =>
    \A url \in {U1, U2} :
      (Cardinality(InPageRefs(url)) = 1 /\ NetworkBodies(url) # <<>>) =>
        LET inPage == InPageResources(dom)[CHOOSE i \in InPageRefs(url) : TRUE].data
            body == NetworkBodies(url)[Len(NetworkBodies(url))]
            hits == SelectSeq(OutputEntries, LAMBDA e : e.url = url)
        IN /\ Len(hits) = 1
           /\ (inPage \o body # <<>>) =>
                /\ hits[1].content.alg = "raw"
                /\ hits[1].content.value = inPage \o body
                /\ hits[1].content.size = Len(inPage) + Len(body)
           /\ (inPage \o body = <<>>) => hits[1].content = NoContent

\* A script element with inline text and a src that was also captured: one merged entry.
C10_Witness ==
  /\ mpc = "done"
  /\ Cardinality(InPageRefs(U1)) = 1
  /\ NetworkBodies(U1) = << <<3>> >>
  /\ \E i \in 1..Len(output.scripts) :
       /\ output.scripts[i].url = U1
       /\ output.scripts[i].content = [alg |-> "raw", value |-> <<1, 3>>, size |-> 2]

\* The output entries for url, in output order.
Hits(url) == SelectSeq(OutputEntries, LAMBDA e : e.url = url)

\* The in-page resources (before the merge) that reference url, in document order.
RefsOf(url) == SelectSeq(InPageResources(dom), LAMBDA r : r.url = url)

\* A URL referenced by two or more in-page elements and captured from the network.
SharedUrl(url) == Len(RefsOf(url)) >= 2 /\ NetworkBodies(url) # <<>>

\* C11 as stated: when k >= 2 in-page elements reference one URL that was also captured,
\* the output keeps k entries for it and all of them carry an identical fingerprint and
\* size.
C11_SameUrlIdenticalFingerprints ==
  mpc = "done" =>
    \A url \in {U1, U2} : SharedUrl(url) =>
      /\ Len(Hits(url)) = Len(RefsOf(url))
      /\ \A i, j \in 1..Len(Hits(url)) : Hits(url)[i].content = Hits(url)[j].content

\* C11 amended: the output keeps the k entries in document order, the i-th one carrying
\* the content of the i-th element followed by the network body kept for the URL; hence
\* elements with the same own content carry an identical fingerprint and size.
C11_SameUrlKeepsAllMerged ==
  mpc = "done" =>
    \A url \in {U1, U2} : SharedUrl(url) =>
      LET body == NetworkBodies(url)[Len(NetworkBodies(url))]
      IN /\ Len(Hits(url)) = Len(RefsOf(url))
         /\ \A i \in 1..Len(Hits(url)) :
              LET data == RefsOf(url)[i].data \o body
              IN Hits(url)[i].content =
                   IF data = <<>> THEN NoContent
                   ELSE [alg |-> "raw", value |-> data, size |-> Len(data)]
         /\ \A i, j \in 1..Len(Hits(url)) :
              RefsOf(url)[i].data = RefsOf(url)[j].data
                => Hits(url)[i].content = Hits(url)[j].content

\* Two identical script elements with the same captured src: two identical entries.
C11_Witness ==
  /\ mpc = "done"
  /\ Len(dom.scripts) = 2 /\ dom.scripts[1] = dom.scripts[2] /\ dom.scripts[1].src = U1
  /\ NetworkBodies(U1) = << <<3>> >>
  /\ Len(output.scripts) = 2
  /\ output.scripts[1] = output.scripts[2]
  /\ output.scripts[1] =
       [url |-> U1, content |-> [alg |-> "raw", value |-> <<3>>, size |-> 1]]

\* s has sub as a contiguous part.
Contains(s, sub) == \E i \in 0..(Len(s) - Len(sub)) : SubSeq(s, i + 1, i + Len(sub)) = sub

IsDataOrBlob(url) == StartsWith(url, DATA) \/ StartsWith(url, BLOB)

\* C12: the url field of an output entry that comes from a data: or blob: URL never
\* contains the raw content of that resource, whatever its length.
C12_NoRawPayloadInUrl ==
  mpc = "done" =>
    \A i \in 1..Len(extracted) :
      (IsDataOrBlob(extracted[i].url) /\ extracted[i].data # <<>>) =>
        \A k \in 1..Len(OutputEntries) :
          IsDataOrBlob(OutputEntries[k].url)
            => ~Contains(OutputEntries[k].url, extracted[i].data)

(***************************************************************************)
(* Claims about one request.                                               *)
(***************************************************************************)
\* C8: when the capture set is handed to the merge / user-script step, every body read
\* issued before that point has settled, and no such read delivers its body afterwards.
C8_ReadsSettledAtCutoff ==
  cutoff.taken =>
    /\ cutoff.issued \subseteq cutoff.settled
    /\ \A r \in cutoff.issued :
         reads[r] = "done" => \E i \in 1..Len(cutoff.snapshot) : cutoff.snapshot[i] = r

\* C9: a request that has been answered has called close() on everything it opened.
C9_ClosedOnEveryPath ==
  rpc = "done" => opened \subseteq closeTried

\* C18: when the user script (resource filter or content extractor) throws, the reply is
\* a 400 whose message contains the message of the script's exception, and the exception
\* does not leave the request handler.
C18_ScriptFailureIsClientError ==
  /\ failure.by = "script" =>
       /\ result = "client-error"
       /\ status # 0 =>
            /\ status = 400
            /\ failure.cause.kind \in {"Error", "string"}
                 => Contains(message, failure.cause.text)
  /\ \A i \in 1..Len(served) : served[i].by = "script" => served[i].status = 400

\* C18: a request whose script threw got its 400, and the request served after it got
\* a 200.
C18_Witness ==
  /\ Len(served) = 1
  /\ served[1].by = "script" /\ served[1].status = 400
  /\ rpc = "done" /\ status = 200

\* The awaits that follow navigation and the wait for the selector: the delay, the
\* extraction (in which the resources are merged and fingerprinted) and what precedes it.
LaterSteps ==
  {"delay", "interceptorStop", "allHeaders", "evaluateHandle", "evaluate", "pageContent"}

\* The message tells what failed, for which page, and why.
Descriptive ==
  /\ message # <<>>
  /\ message[1] = (IF failure.step = "goto" THEN "Failed to load page "
                   ELSE "Failed to retrieve selector ")
  /\ Contains(message, <<URL>>)
  /\ Contains(message, errorMessage(failure.cause))

\* C19: a failure or timeout of page.goto or of page.waitForSelector ends the request
\* with a 4xx reply that carries a descriptive message, never with a 5xx, and none of
\* the later steps of the pipeline (delay, extraction, fingerprinting) runs.
C19_NavigationFailureIsClientError ==
  failure.step \in {"goto", "waitForSelector"} =>
    /\ rpc \notin LaterSteps
    /\ \A i \in 1..Len(trail) : trail[i] \notin LaterSteps
    /\ status # 0 => status \in 400..499 /\ Descriptive

\* C19: a request was answered after page.waitForSelector failed, the one before it
\* after another await of the pipeline failed.
C19_Witness ==
  /\ Len(served) = 1 /\ served[1].by = "await" /\ served[1].status = 400
  /\ rpc = "done" /\ failure.step = "waitForSelector" /\ status = 400

\* The awaits of acquisition and set-up: the browser, the context, the page, the CDP
\* session, the interceptor, the proxy route, the init script.
InfraSteps ==
  {"acquire", "newContext", "newPage", "cdp", "interceptorStart", "route", "addInitScript"}

\* C20: a failure of the infrastructure (the browser cannot be launched during
\* acquireBrowser, or an await of the set-up throws) is answered with a 5xx whose message
\* is the generic one and holds nothing of the underlying error.
C20_InfrastructureFailureIsGeneric ==
  (failure.step \in InfraSteps /\ status # 0) =>
    /\ status \in 500..599
    /\ message = GenericMessage(rq.mode)
    /\ ~Contains(message, errorMessage(failure.cause))

\* C27: when capturing the diagnostics screenshots fails after an extraction failure,
\* the reply still has the status and the message of that failure: 400 with the client
\* error message, or 500 with the generic message.
C27_DiagnosticsFailureKeepsError ==
  ("screenshot" \in logged /\ status # 0) =>
    IF failure.step \in InfraSteps
      THEN status = 500 /\ message = GenericMessage(rq.mode)
      ELSE status = 400 /\ message = error /\ error # <<>>

\* C27: the screenshots failed after a client error and the 400 is out.
C27_Witness ==
  /\ "screenshot" \in logged /\ rpc = "done"
  /\ failure.step = "goto" /\ status = 400

\* C28: when page.close() or context.close() fails at the end of an extraction that
\* worked, the failure is logged and nothing more: the reply is a 200 and the result has
\* gone to the cache.
C28_CloseFailureIsLogged ==
  "close" \in logged =>
    /\ failure = NoFailure
    /\ rpc \in {"respond", "done"} /\ result = "success"
    /\ rpc = "done" => status = 200 /\ stored

\* C28: a request of the content endpoint whose page.close() failed has its 200.
C28_Witness ==
  /\ "close" \in logged /\ rq.mode = "content" /\ "context" \notin closeTried
  /\ rpc = "done" /\ status = 200 /\ stored

\* This step is the failure of a body read.
BodyReadFails == \E r \in Reads : reads[r] = "pending" /\ reads'[r] = "failed"

\* C29: a failed body read records no resource, is not tried again, and does not end or
\* change the extraction it belongs to.
C29_FailedReadIsDropped ==
  /\ [](\A r \in Reads :
         reads[r] = "failed" =>
           /\ \A i \in 1..Len(externalResources) : externalResources[i] # r
           /\ \A i \in 1..Len(cutoff.snapshot) : cutoff.snapshot[i] # r)
  /\ [][/\ \A r \in Reads : (reads[r] = "failed" /\ served' = served) => reads'[r] = "failed"
        /\ BodyReadFails => UNCHANGED <<rpc, result, failure, trail, status>>]_vars

\* C29: one read failed, another one delivered its resource in time, and the request
\* has its 200.
C29_Witness ==
  /\ \E r \in Reads : reads[r] = "failed"
  /\ cutoff.snapshot # <<>>
  /\ rpc = "done" /\ status = 200

\* The awaits of one request in the order of the code, list.ts:124, 156-426 and
\* get.ts:106, 145-246.
Pipeline(r) ==
  (IF r.mode = "content"
     THEN <<"acquire", "newContext", "newPage", "cdp", "interceptorStart", "route">>
     ELSE <<"acquire", "newPage">>)
  \o (IF r.script THEN <<"addInitScript">> ELSE <<>>)
  \o <<"goto">>
  \o (IF r.waitSelector THEN <<"waitForSelector">> ELSE <<>>)
  \o <<"delay">>
  \o (IF r.mode = "content"
        THEN <<"interceptorStop">>
             \o (IF r.script THEN <<"allHeaders", "evaluateHandle", "evaluate">>
                 ELSE <<"pageContent">>)
             \o <<"closePage", "closeContext">>
        ELSE <<"evaluateHandle", "evaluate", "closePage">>)

\* The awaits of the pipeline that have settled: the trail without the screenshots.
Settled_Steps == SelectSeq(trail, LAMBDA step : step # "screenshot")

IsPrefix(t, u) == Len(t) <= Len(u) /\ SubSeq(u, 1, Len(t)) = t

\* C30: the steps of a request happen in the order open, install the script (if one was
\* supplied) and observe, navigate, wait for the selector (if and only if one was given,
\* with the timeout of the navigation), sleep, evaluate and fingerprint, close; a step
\* starts only when the one before it has succeeded.
C30_StepsInOrder ==
  /\ IsPrefix(Settled_Steps, Pipeline(rq))
  /\ rpc \in {"screenshot", "respond", "errorHandler", "done"}
       \/ rpc = Pipeline(rq)[Len(Settled_Steps) + 1]
  /\ failure.step # "" =>
       /\ failure.step = Settled_Steps[Len(Settled_Steps)]
       /\ rpc \in {"screenshot", "respond", "errorHandler", "done"}
  /\ result = "success" =>
       \/ Settled_Steps = Pipeline(rq)
       \/ "close" \in logged /\ Settled_Steps \o <<"closeContext">> = Pipeline(rq)
  /\ timeouts.goto # Undefined => timeouts.goto = timeout(rq)
  /\ timeouts.waitForSelector # Undefined =>
       rq.waitSelector /\ timeouts.waitForSelector = timeouts.goto

\* C30: a request of the content endpoint with a script and a waitSelector ran all its
\* steps and has its 200.
C30_Witness ==
  /\ rq.mode = "content" /\ rq.script /\ rq.waitSelector /\ rq.timeout # Undefined
  /\ Settled_Steps = Pipeline(rq)
  /\ timeouts.waitForSelector = 5000
  /\ rpc = "done" /\ status = 200

(***************************************************************************)
(* Claims about fingerprinting.                                            *)
(***************************************************************************)
FpIds == 1..Len(fingerprints)

\* The contents for which the LSH computation succeeds: at least MIN_DATA_LENGTH
\* Latin-1 characters that fill more than half of the first 128 buckets.
LshSucceeds(data) == data \in {Varied(MIN_DATA_LENGTH), Varied(257), Alerts}

\* The digest list.test.ts:122 expects for Alerts, without its "T1".
AlertsDigest == <<55, 50, 65, 48, 48, 50, 49, 53, 49, 57, 67, 52, 48, 67, 50, 52, 50, 70, 56, 54, 55, 55, 53, 67, 48, 57, 48, 67, 49, 48, 48, 49, 50, 52, 56, 48, 49, 65, 53, 49, 55, 48, 52, 51, 53, 67, 52, 54, 53, 48, 48, 68, 53, 50, 70, 69, 48, 48, 53, 53, 55, 70, 50, 56, 48, 55, 68, 49, 49, 52>>

Fallback(data) ==
  IF Len(data) <= 256 THEN [alg |-> "raw", value |-> data, size |-> Len(data)]
  ELSE [alg |-> "sha1", value |-> <<SHA1>> \o data, size |-> Len(data)]

\* C13: every content gets exactly one of tlsh, raw and sha1: tlsh when it has at least
\* 50 characters and the LSH computation succeeds, otherwise raw (the content itself) up
\* to 256 characters and sha1 above.
C13_FingerprintPolicy ==
  \A i \in FpIds :
    LET f == fingerprints[i]
    IN /\ f.content.alg \in {"tlsh", "raw", "sha1"}
       /\ f.content.alg = "tlsh" <=> (Len(f.data) >= 50 /\ LshSucceeds(f.data))
       /\ f.content.alg = "tlsh" =>
            /\ Len(f.content.value) = 1 + 2 * (3 + CODE_SIZE)
            /\ Head(f.content.value) = TLSH
            /\ f.data = Alerts => Tail(f.content.value) = AlertsDigest
       /\ f.content.alg # "tlsh" => f.content = Fallback(f.data)

\* A failed LSH at length 256 gave raw and at length 257 gave sha1.
C13_Witness ==
  \E i, j \in FpIds :
    /\ fingerprints[i].data = Uniform(256) /\ fingerprints[i].content.alg = "raw"
    /\ fingerprints[j].data = Uniform(257) /\ fingerprints[j].content.alg = "sha1"

\* C14: a content of 1 to 49 characters is never fingerprinted as tlsh: its entry is
\* the content itself as raw, with the length of the content as size.
C14_ShortContentIsRaw ==
  \A i \in FpIds :
    Len(fingerprints[i].data) \in 1..49 =>
      fingerprints[i].content =
        [alg |-> "raw", value |-> fingerprints[i].data, size |-> Len(fingerprints[i].data)]

\* alert(1) gave raw "alert(1)" with size 8, and 49 varied bytes gave raw as well.
C14_Witness ==
  \E i, j \in FpIds :
    /\ fingerprints[i].content = [alg |-> "raw", value |-> Alert1, size |-> 8]
    /\ fingerprints[j].data = Varied(MIN_DATA_LENGTH - 1)
    /\ fingerprints[j].content.alg = "raw"

\* One character repeated, or a short text repeated over and over.
TooUniform(data) ==
  \/ \A k \in 1..Len(data) : data[k] = data[1]
  \/ data = Repeat(Alert1, 33)

\* C15: content too uniform to fill more than half of the buckets never gets a tlsh
\* fingerprint: from 50 to 256 characters it is raw and above 256 characters sha1.
C15_UniformNeverTlsh ==
  \A i \in FpIds :
    TooUniform(fingerprints[i].data) =>
      /\ fingerprints[i].content.alg # "tlsh"
      /\ Len(fingerprints[i].data) \in 50..256 => fingerprints[i].content.alg = "raw"
      /\ Len(fingerprints[i].data) > 256 => fingerprints[i].content.alg = "sha1"

\* Fifty times the same letter gave raw, the 264 characters of list.test.ts:35 sha1.
C15_Witness ==
  \E i, j \in FpIds :
    /\ fingerprints[i].data = Uniform(MIN_DATA_LENGTH)
    /\ fingerprints[i].content.alg = "raw"
    /\ fingerprints[j].data = Repeat(Alert1, 33)
    /\ fingerprints[j].content.alg = "sha1"

C17_LshFailureFallsBack ==
  \A i \in FpIds :
    ~LshSucceeds(fingerprints[i].data) =>
      /\ fingerprints[i].content.alg \in {"raw", "sha1"}
      /\ fingerprints[i].content.value # <<>>

\* A content that update() rejects and one that is too uniform both got a fallback.
C17_Witness ==
  \E i, j \in FpIds :
    /\ fingerprints[i].data = Wide(MIN_DATA_LENGTH)
    /\ fingerprints[i].content.alg = "raw"
    /\ fingerprints[j].data = Uniform(257)
    /\ fingerprints[j].content.alg = "sha1"

(***************************************************************************)
(* Claims about the routes and the result cache.                           *)
(***************************************************************************)
\* The requests that got a 200 for an extraction of their own on the content route.
ContentReplies ==
  {i \in Slots : /\ slots[i].pc = "done" /\ slots[i].status = 200 /\ ~slots[i].hit
                 /\ slots[i].request.endpoint = "content"}

\* C21 as stated: a serialized content above the maximum is replaced by the message
\* with the SHA-1 digest, and the content returned is always smaller than the maximum.
C21_ReturnedBelowMaximum ==
  \A i \in ContentReplies :
    /\ slots[i].reply.extracted > MAX_CONTENT_SIZE_BYTES => slots[i].reply.replaced
    /\ slots[i].reply.size < MAX_CONTENT_SIZE_BYTES

\* C21 amended: a serialized content above the maximum is replaced by the message with
\* the SHA-1 digest, any other content is returned as it is, and the content returned
\* is never larger than the maximum.
C21_ReturnedWithinMaximum ==
  \A i \in ContentReplies :
    /\ slots[i].reply.extracted > MAX_CONTENT_SIZE_BYTES <=> slots[i].reply.replaced
    /\ slots[i].reply.replaced =>
         slots[i].reply.size = ReplacementSize(slots[i].reply.extracted)
    /\ ~slots[i].reply.replaced => slots[i].reply.size = slots[i].reply.extracted
    /\ slots[i].reply.size <= MAX_CONTENT_SIZE_BYTES

\* C21: a content one byte above the maximum was replaced, and one of exactly the
\* maximum was returned.
C21_Witness ==
  /\ \E i \in ContentReplies :
       slots[i].reply.replaced /\ slots[i].reply.extracted = MAX_CONTENT_SIZE_BYTES + 1
  /\ \E i \in ContentReplies : slots[i].reply.size = MAX_CONTENT_SIZE_BYTES

\* C22: two requests to one endpoint whose bodies differ have different cache keys, and
\* a request answered from the cache gets a result that was computed for its own body.
C22_DistinctRequestsDistinctKeys ==
  /\ \A i, j \in Slots :
       (/\ slots[i].request.endpoint # "none"
        /\ slots[i].request.endpoint = slots[j].request.endpoint
        /\ slots[i].request.body # slots[j].request.body) => slots[i].key # slots[j].key
  /\ \A i \in Slots : slots[i].hit => slots[i].reply.request = slots[i].request

\* This step is the arrival of request i, answered from the cache.
IsHit(i) == slots[i].pc = "idle" /\ slots'[i].hit

\* C23: a cache hit replies with the stored result as it is and does nothing else: no
\* acquireBrowser call, no timer, no page, no extraction, no write to the cache.
C23_HitHasNoEffect ==
  /\ [](\A i \in Slots :
         slots[i].hit => /\ slots[i].pc = "done" /\ slots[i].status = 200
                         /\ slots[i].call = 0 /\ slots[i].capture = {}
                         /\ slots[i].reply # NoData)
  /\ [][\A i \in Slots :
          IsHit(i) => /\ UNCHANGED <<cache, mgrVars>>
                      /\ slots'[i].reply = cache[cacheKey(slots'[i].request)]
                      /\ \A j \in Slots \ {i} : slots'[j] = slots[j]]_vars

\* C23: a request was answered from the cache with the result of an earlier request.
C23_Witness ==
  \E i, j \in Slots :
    /\ slots[i].hit /\ slots[i].reply.by = j /\ j # i
    /\ slots[j].reply = slots[i].reply /\ cache[slots[i].key] = slots[i].reply

\* This step is the success of the extraction of request i.
Succeeds(i) == slots[i].pc = "extract" /\ slots'[i].pc = "done" /\ slots'[i].status = 200

\* C24: a request that missed the cache runs its own extraction whatever else is in
\* flight, replies with its own result, and its result is what the cache holds under
\* its key from then on, whatever was there before.
C24_NoDeduplication ==
  [][\A i \in Slots :
       Succeeds(i) => /\ slots'[i].reply.by = i
                      /\ slots'[i].reply.request = slots[i].request
                      /\ slots'[i].reply.from = slots[i].capture
                      /\ cache'[slots[i].key] = slots'[i].reply]_vars

\* C24: two requests with one key were in flight together, both missed, both extracted
\* and got their own results, and the cache holds one of the two.
C24_Witness ==
  \E i, j \in Slots :
    /\ i # j /\ slots[i].key = slots[j].key
    /\ i \notin slots[j].after /\ j \notin slots[i].after
    /\ ~slots[i].hit /\ ~slots[j].hit
    /\ slots[i].status = 200 /\ slots[j].status = 200
    /\ slots[i].reply.by = i /\ slots[j].reply.by = j
    /\ cache[slots[i].key] = slots[j].reply

\* This step is the end of request i in a client error or a server error.
Fails(i) == slots[i].pc # "done" /\ slots'[i].pc = "done" /\ slots'[i].status # 200

\* C25: the step that ends a request in a 400 or a 500 leaves the cache and the
\* browser manager as they are, and what the cache holds was always put there by a
\* request that succeeded.
C25_FailureLeavesSharedState ==
  /\ [](\A k \in DOMAIN cache :
         /\ cache[k].by \in Slots
         /\ slots[cache[k].by].status = 200 /\ ~slots[cache[k].by].hit
         /\ slots[cache[k].by].key = k)
  /\ [][\A i \in Slots : Fails(i) => UNCHANGED <<cache, mgrVars>>]_vars

\* C25: a request failed with a 400; the same request, made after it, missed the cache,
\* got the browser and succeeded.
C25_Witness ==
  \E i, j \in Slots :
    /\ slots[i].status = 400 /\ i \in slots[j].after
    /\ slots[j].request = slots[i].request
    /\ ~slots[j].hit /\ slots[j].call # 0 /\ slots[j].status = 200

\* C26: what a request captures, and what goes from it into its result and into the
\* cache, comes from its own page alone, and the headers of its page are its own.
C26_RequestsAreIsolated ==
  /\ \A i \in Slots :
       /\ slots[i].capture \subseteq {i}
       /\ slots[i].reply.from \subseteq {slots[i].reply.by}
       /\ slots[i].pc = "extract" =>
            slots[i].headers = IF Has(slots[i].request.body, "headers")
                                 THEN slots[i].request.body.headers ELSE <<>>
  /\ \A k \in DOMAIN cache : cache[k].from \subseteq {cache[k].by}

\* C26: two requests are extracting at once, one of them with headers, and each has
\* captured a response of its page.
C26_Witness ==
  \E i, j \in Slots :
    /\ i # j /\ slots[i].pc = "extract" /\ slots[j].pc = "extract"
    /\ slots[i].capture = {i} /\ slots[j].capture = {j}
    /\ slots[i].headers # <<>> /\ slots[j].headers = <<>>

(***************************************************************************)
(* Further claims about the browser lifecycle.                             *)
(***************************************************************************)
\* C35: acquireBrowser never resolves with a handle on which close() had been called
\* when the call arrived.
C35_NeverReturnsStoppingHandle ==
  \A n \in 1..Len(calls) :
    calls[n].result \in Handles => calls[n].result \notin calls[n].stopped

\* The browser that request i got from acquireBrowser.
HeldBy(i) == calls[slots[i].call].result

\* C36: while a request that got the browser from acquireBrowser is extracting, no
\* close() has been called on that browser.
C36_NotStoppedWhileHeld ==
  \A i \in Slots : slots[i].pc = "extract" => closeCalls[HeldBy(i)] = 0

\* C37: a request answered with a 200 gets a result that was made by its own endpoint:
\* {timestamp, scripts, styles} for resources, {timestamp, content} for content.
C37_ResultOfOwnEndpoint ==
  \A i \in Slots :
    slots[i].status = 200 => slots[i].reply.request.endpoint = slots[i].request.endpoint

(***************************************************************************)
(* Further claims about discovery and merge.                               *)
(***************************************************************************)
EndsWith(str, suffix) ==
  Len(suffix) <= Len(str) /\ SubSeq(str, Len(str) - Len(suffix) + 1, Len(str)) = suffix

\* C39: without a filter every captured network resource has its body in what the page
\* evaluation returns, at the end of the data of an entry with its URL.
C39_NoCapturedBodyLost ==
  mpc \in {"evaluated", "done"} =>
    \A n \in 1..Len(network) :
      \E k \in 1..Len(extracted) :
        /\ extracted[k].url = network[n].url
        /\ EndsWith(extracted[k].data, network[n].data)

\* A request of the resources route with a resourceFilterMap, after the page evaluation.
Filtered ==
  filter.mode = "resources" /\ filter.kind # "none" /\ mpc \in {"evaluated", "done", "failed"}

\* The merged resources for which the script returns an object, as that object.
KeptOf(kind, combined) ==
  SeqMap(LAMBDA r : AsResource(Invoke(kind, r)),
         SelectSeq(combined, LAMBDA r : Invoke(kind, r).ret = "object"))

ShapeAccepted(mapped) ==
  /\ mapped.url.t \in {"undefined", "null", "string"}
  /\ mapped.type \in {"script", "stylesheet"}
  /\ mapped.data.t = "string"

\* The script returned an object of another shape for one of the resources it was
\* called with.
BadShapeReturned ==
  \E k \in 1..Len(invocations) :
    /\ Invoke(filter.kind, invocations[k]).ret = "object"
    /\ ~ShapeAccepted(Invoke(filter.kind, invocations[k]))

\* C32: an object returned by resourceFilterMap is accepted when its url is absent (or
\* null) or a string, its type script or stylesheet and its data a string; an object of
\* any other shape ends the request as a client error, and nothing of it is in the
\* output.
C32_MappedShapeValidated ==
  Filtered =>
    /\ BadShapeReturned <=> mpc = "failed"
    /\ mpc = "failed" => extracted = <<>> /\ OutputEntries = <<>>
    /\ \A k \in 1..Len(extracted) : extracted[k].type \in {"script", "stylesheet"}

\* C32: the script returned a resource of type image for the third resource, after two
\* resources that were accepted.
C32_Witness ==
  /\ filter.mode = "resources" /\ filter.kind = "badType" /\ mpc = "failed"
  /\ Len(invocations) = 3 /\ invocations[3].type = "stylesheet"
  /\ extracted = <<>>

\* C33: no entry of the output lacks both url and content, and an extracted resource is
\* left out of the output only when it has neither.
C33_NoEmptyEntries ==
  mpc = "done" =>
    /\ \A k \in 1..Len(OutputEntries) :
         OutputEntries[k].url # <<>> \/ OutputEntries[k].content # NoContent
    /\ Len(OutputEntries) = Len(SelectSeq(extracted, isResourceValid))

\* C33: the script returned resources without url and data for a document with an empty
\* script element and a captured resource, and the output is empty.
C33_Witness ==
  /\ mpc = "done" /\ filter.kind = "blank"
  /\ \E k \in 1..Len(dom.scripts) : dom.scripts[k].innerHTML = <<SP>>
  /\ network # <<>>
  /\ Len(extracted) >= 2 /\ OutputEntries = <<>>

(***************************************************************************)
(* Claims about the fetch interceptor.                                     *)
(***************************************************************************)
\* Fetch.continueRequest has been sent for request id.
Continued(id) == paused[id].continues >= 1

\* C38: for every Fetch.requestPaused event Fetch.continueRequest is sent once, for any
\* status code and any outcome of the body read, and not before the body read of the
\* event has finished; every paused request gets its Fetch.continueRequest.
C38_ContinuedExactlyOnce ==
  /\ [](\A id \in RequestIds :
         /\ paused[id].continues <= 1
         /\ Continued(id) => paused[id].body # "pending"
         /\ paused[id].stage \in {"continuing", "released", "continueFailed"}
              <=> Continued(id)
         /\ paused[id].body \in {"done", "failed"} => Continued(id))
  /\ \A id \in RequestIds : (paused[id].stage # "none") ~> Continued(id)

\* C38: a request with status 404, one whose body read failed and one whose body was
\* read have each been continued once.
C38_Witness ==
  \E a, b, c \in RequestIds :
    /\ paused[a].status = 404 /\ paused[a].continues = 1
    /\ paused[b].body = "failed" /\ paused[b].continues = 1
    /\ paused[c].body = "done" /\ paused[c].continues = 1
    /\ interceptedResources = <<c>>

(***************************************************************************)
(* Claims about find_quartile.                                             *)
(***************************************************************************)
\* The value at position k, counted from 0, of the first EFF_BUCKETS buckets in
\* ascending order.
Ranked(a_bucket, k) ==
  CHOOSE v \in {a_bucket[i] : i \in 0..end} :
    /\ Cardinality({i \in 0..end : a_bucket[i] < v}) <= k
    /\ k < Cardinality({i \in 0..end : a_bucket[i] <= v})

\* The call has returned.
Returned == fq.loop = "done"

\* C34: find_quartile returns as q1, q2 and q3 the values at positions 31, 63 and 95,
\* counted from 0, of the first 128 buckets in ascending order, so q1 <= q2 <= q3, and
\* it does not change the histogram.
C34_QuartilesAreRanked ==
  /\ [](Returned =>
         /\ fq.q1 = Ranked(hasher.a_bucket, 31)
         /\ fq.q2 = Ranked(hasher.a_bucket, 63)
         /\ fq.q3 = Ranked(hasher.a_bucket, 95)
         /\ fq.q1 <= fq.q2 /\ fq.q2 <= fq.q3)
  /\ [][hasher' = hasher]_vars

\* C34: the call has returned three different quartiles of a histogram that is not
\* sorted.
C34_Witness ==
  /\ Returned
  /\ fq.q1 < fq.q2 /\ fq.q2 < fq.q3
  /\ \E i \in 0..(end - 1) : hasher.a_bucket[i] > hasher.a_bucket[i + 1]
  /\ fq.buf # [i \in 0..end |-> hasher.a_bucket[i]]

\* The copy holds the values of the first EFF_BUCKETS buckets, each as often as they do.
IsPermutation ==
  \A v \in {hasher.a_bucket[i] : i \in 0..end} \cup {fq.buf[i] : i \in 0..end} :
    Cardinality({i \in 0..end : fq.buf[i] = v})
      = Cardinality({i \in 0..end : hasher.a_bucket[i] = v})

\* C40: the search ends for every histogram: every round changes the locals and each of
\* the three loops reaches its target, and no round reads or writes outside the indices
\* 0..127, of the copy or of the lists of partition points.
C40_SearchTerminatesInRange ==
  /\ <>Returned
  /\ [](/\ Running => findQuartileRound(fq) # fq
        /\ fq.loop \in {"q2", "q1in", "q3in"} => 0 <= fq.l /\ fq.l <= fq.r /\ fq.r <= end
        /\ fq.loop = "q2" => fq.l <= p2 /\ p2 <= fq.r
        /\ fq.loop = "q1in" => fq.l <= p1 /\ p1 <= fq.r
        /\ fq.loop = "q3in" => fq.l <= p3 /\ p3 <= fq.r
        /\ fq.loop = "q1" => fq.i <= Len(fq.short_cut_left)
        /\ fq.loop = "q3" => fq.i <= Len(fq.short_cut_right)
        /\ Len(fq.short_cut_left) <= EFF_BUCKETS
        /\ Len(fq.short_cut_right) <= EFF_BUCKETS
        /\ IsPermutation)

\* C40: the call on a histogram of equal counts has returned, after its first loop
\* recorded one partition point for every bucket below the median.
C40_Witness ==
  /\ Returned
  /\ \A i \in 0..end : hasher.a_bucket[i] = hasher.a_bucket[0]
  /\ Len(fq.short_cut_left) = p2 + 1

====
